---- MODULE Spec2Model ----
(***************************************************************************)
(* mega-memoize: memoize, memoizeAsync, memoryCache and smartKeyNormalizer. *)
(*                                                                         *)
(* JavaScript values are tagged records; a JavaScript string is a sequence *)
(* of one-character strings, so that quoting, escaping and comparison are  *)
(* computed character by character.                                        *)
(***************************************************************************)
EXTENDS Integers, Sequences, FiniteSets, TLC

\* ------------------------------------------------------------ bounds
\* Wrapper calls issued in one behaviour.
MaxCalls == 3

\* ------------------------------------------------------- JavaScript values
Undefined == [t |-> "undefined"]
Null == [t |-> "null"]
Bool(b) == [t |-> "boolean", b |-> b]
Num(n) == [t |-> "number", n |-> n]
Str(cs) == [t |-> "string", s |-> cs]
BigIntV(n) == [t |-> "bigint", big |-> n]
Uint8ArrayV(bytes) == [t |-> "uint8array", bytes |-> bytes]
ArrayBufferV(bytes) == [t |-> "arraybuffer", buf |-> bytes]
Arr(items) == [t |-> "array", items |-> items]
\* A plain object: its own properties <<name, value>> in property order.
Obj(props) == [t |-> "object", props |-> props]
\* A Map: its entries <<key, value>> in insertion order.
MapV(entries) == [t |-> "map", entries |-> entries]
\* A Set: its elements in insertion order.
SetV(elems) == [t |-> "set", elems |-> elems]
\* A Date: milliseconds since the epoch.
DateV(ms) == [t |-> "date", ms |-> ms]
RegExpV(source, flags) == [t |-> "regexp", source |-> source, flags |-> flags]
\* A Symbol and a function: each is the value it is and no other.
SymbolV(id) == [t |-> "symbol", id |-> id]
FunctionV(id) == [t |-> "function", id |-> id]
\* A URL: its href.
URLV(href) == [t |-> "url", href |-> href]
\* A URLSearchParams: its <<name, value>> pairs in order.
URLSearchParamsV(pairs) == [t |-> "urlsearchparams", pairs |-> pairs]

IsNullish(v) == v.t \in {"null", "undefined"}

\* ------------------------------------------------------- strings
Ascii ==
  <<
    " ", "!", "\"", "#", "$", "%", "&", "'", "(", ")", "*", "+", ",", "-", ".", "/",
    "0", "1", "2", "3", "4", "5", "6", "7", "8", "9", ":", ";", "<", "=", ">", "?",
    "@", "A", "B", "C", "D", "E", "F", "G", "H", "I", "J", "K", "L", "M", "N", "O",
    "P", "Q", "R", "S", "T", "U", "V", "W", "X", "Y", "Z", "[", "\\", "]", "^", "_",
    "(grave)", "a", "b", "c", "d", "e", "f", "g", "h", "i", "j", "k", "l", "m", "n", "o",
    "p", "q", "r", "s", "t", "u", "v", "w", "x", "y", "z", "{", "|", "}", "~"
  >>

\* The code unit of a character.
CharCode(c) == 31 + (CHOOSE i \in 1..Len(Ascii) : Ascii[i] = c)

DigitChar(d) == Ascii[17 + d]

RECURSIVE Digits(_)
Digits(n) == IF n < 10 THEN <<DigitChar(n)>> ELSE Digits(n \div 10) \o <<DigitChar(n % 10)>>

\* Number.prototype.toString and BigInt.prototype.toString on integers.
NumberToString(n) == IF n < 0 THEN <<"-">> \o Digits(-n) ELSE Digits(n)

\* s < t on strings: by code units, a proper prefix first.
RECURSIVE StringLess(_, _)
StringLess(s, u) ==
  IF u = <<>> THEN FALSE
  ELSE IF s = <<>> THEN TRUE
  ELSE IF Head(s) = Head(u) THEN StringLess(Tail(s), Tail(u))
  ELSE CharCode(Head(s)) < CharCode(Head(u))

\* The text of a string, for use as a Map key.
RECURSIVE Text(_)
Text(cs) == IF cs = <<>> THEN "" ELSE Head(cs) \o Text(Tail(cs))

\* JSON's QuoteJSONString: the quotation mark and the backslash are escaped.
RECURSIVE EscapeChars(_)
EscapeChars(cs) ==
  IF cs = <<>> THEN <<>>
  ELSE (IF Head(cs) \in {"\"", "\\"} THEN <<"\\", Head(cs)>> ELSE <<Head(cs)>>)
         \o EscapeChars(Tail(cs))

QuoteJSONString(cs) == <<"\"">> \o EscapeChars(cs) \o <<"\"">>

\* Date.prototype.toISOString, for the dates of the first second of the epoch.
Pad3(n) == <<DigitChar(n \div 100), DigitChar((n \div 10) % 10), DigitChar(n % 10)>>

ToISOString(ms) ==
  <<"1", "9", "7", "0", "-", "0", "1", "-", "0", "1", "T",
    "0", "0", ":", "0", "0", ":", "0", "0", ".">> \o Pad3(ms) \o <<"Z">>

\* RegExp.prototype.toString
RegExpToString(v) == <<"/">> \o v.source \o <<"/">> \o v.flags

RECURSIVE JoinStrings(_, _)
JoinStrings(strs, sep) ==
  IF strs = <<>> THEN <<>>
  ELSE IF Len(strs) = 1 THEN strs[1]
  ELSE strs[1] \o sep \o JoinStrings(Tail(strs), sep)

BytesToArray(bytes) == Arr([i \in 1..Len(bytes) |-> Num(bytes[i])])

\* ToString(v), as the default sort and property keys use it.
RECURSIVE ToStringJS(_)
ToStringJS(v) ==
  CASE v.t = "string" -> v.s
    [] v.t = "number" -> NumberToString(v.n)
    [] v.t = "bigint" -> NumberToString(v.big)
    [] v.t = "boolean" -> IF v.b THEN <<"t", "r", "u", "e">> ELSE <<"f", "a", "l", "s", "e">>
    [] v.t = "null" -> <<"n", "u", "l", "l">>
    [] v.t = "undefined" -> <<"u", "n", "d", "e", "f", "i", "n", "e", "d">>
    [] v.t = "regexp" -> RegExpToString(v)
    [] v.t = "array" ->
         JoinStrings([i \in 1..Len(v.items) |->
                        IF IsNullish(v.items[i]) THEN <<>> ELSE ToStringJS(v.items[i])], <<",">>)
    [] v.t = "uint8array" ->
         JoinStrings([i \in 1..Len(v.bytes) |-> NumberToString(v.bytes[i])], <<",">>)
    [] OTHER -> <<"[", "o", "b", "j", "e", "c", "t", " ", "O", "b", "j", "e", "c", "t", "]">>

\* ToNumber(v) on primitives: <<TRUE, n>>, or <<FALSE, 0>> for NaN.
RECURSIVE ParseDigits(_, _)
ParseDigits(cs, acc) ==
  IF cs = <<>> THEN <<TRUE, acc>>
  ELSE IF CharCode(Head(cs)) \in 48..57
         THEN ParseDigits(Tail(cs), 10 * acc + (CharCode(Head(cs)) - 48))
         ELSE <<FALSE, 0>>

Negated(p) == <<p[1], 0 - p[2]>>

StringToNumber(cs) ==
  IF cs = <<>> THEN <<TRUE, 0>>
  ELSE IF Head(cs) = "-" /\ Len(cs) > 1 THEN Negated(ParseDigits(Tail(cs), 0))
  ELSE ParseDigits(cs, 0)

ToNumberJS(v) ==
  CASE v.t = "number" -> <<TRUE, v.n>>
    [] v.t = "bigint" -> <<TRUE, v.big>>
    [] v.t = "boolean" -> <<TRUE, IF v.b THEN 1 ELSE 0>>
    [] v.t = "null" -> <<TRUE, 0>>
    [] v.t = "string" -> StringToNumber(v.s)
    [] OTHER -> <<FALSE, 0>>

IsPrimitive(v) ==
  v.t \in {"undefined", "null", "boolean", "number", "string", "bigint"}

\* ToPrimitive(v): an object yields its string form.
ToPrimitive(v) == IF IsPrimitive(v) THEN v ELSE Str(ToStringJS(v))

NumberLess(na, nb) == na[1] /\ nb[1] /\ na[2] < nb[2]

PrimitiveLess(pa, pb) ==
  IF pa.t = "string" /\ pb.t = "string" THEN StringLess(pa.s, pb.s)
  ELSE NumberLess(ToNumberJS(pa), ToNumberJS(pb))

\* a < b of JavaScript: objects go through ToPrimitive, two strings compare
\* by code units, any other pair as numbers (NaN: false).
JsLess(a, b) == PrimitiveLess(ToPrimitive(a), ToPrimitive(b))

\* ------------------------------------------------------- Array.prototype.sort
InsertAt(seq, i, x) == SubSeq(seq, 1, i - 1) \o <<x>> \o SubSeq(seq, i, Len(seq))

\* The comparator of smartKeyNormalizer's Map case: a[0] < b[0] ? -1 : 1.
EntryCompare(a, b) == IF JsLess(a[1], b[1]) THEN 0 - 1 ELSE 1

\* The default comparator: undefined last, otherwise by ToString.
StringCompare(sa, sb) ==
  IF StringLess(sa, sb) THEN 0 - 1 ELSE IF StringLess(sb, sa) THEN 1 ELSE 0

DefaultCompare(a, b) ==
  IF a.t = "undefined" THEN (IF b.t = "undefined" THEN 0 ELSE 1)
  ELSE IF b.t = "undefined" THEN 0 - 1
  ELSE StringCompare(ToStringJS(a), ToStringJS(b))

Compare(cmp, a, b) == IF cmp = "entry" THEN EntryCompare(a, b) ELSE DefaultCompare(a, b)

\* Binary insertion, as the engine sorts a short array: the place of the
\* pivot x in the sorted prefix is found by bisection with cmp(x, prefix[mid]).
RECURSIVE BinarySearch(_, _, _, _, _)
BinarySearch(cmp, sorted, x, left, right) ==
  IF left >= right THEN left
  ELSE LET mid == left + ((right - left) \div 2)
       IN IF Compare(cmp, x, sorted[mid + 1]) < 0
            THEN BinarySearch(cmp, sorted, x, left, mid)
            ELSE BinarySearch(cmp, sorted, x, mid + 1, right)

RECURSIVE SortFrom(_, _, _)
SortFrom(cmp, sorted, rest) ==
  IF rest = <<>> THEN sorted
  ELSE SortFrom(cmp,
                InsertAt(sorted, BinarySearch(cmp, sorted, Head(rest), 0, Len(sorted)) + 1,
                         Head(rest)),
                Tail(rest))

ArraySort(cmp, seq) == SortFrom(cmp, <<>>, seq)

\* ------------------------------------------------------- Object.fromEntries
\* A canonical array index as a property name: "0", or digits with no leading zero.
IsIndexName(cs) ==
  /\ cs # <<>>
  /\ \A i \in 1..Len(cs) : CharCode(cs[i]) \in 48..57
  /\ (Len(cs) > 1 => cs[1] # "0")

\* obj[name] = value: an existing property keeps its place; a new index
\* property goes among the index properties in ascending order, before every
\* other property; a new other property goes last.
IndexesBelow(props, n) ==
  {i \in 1..Len(props) : IsIndexName(props[i][1]) /\ StringToNumber(props[i][1])[2] < n}

DefineProperty(props, name, value) ==
  IF \E i \in 1..Len(props) : props[i][1] = name
    THEN [i \in 1..Len(props) |-> IF props[i][1] = name THEN <<name, value>> ELSE props[i]]
  ELSE IF IsIndexName(name)
    THEN InsertAt(props, Cardinality(IndexesBelow(props, StringToNumber(name)[2])) + 1,
                  <<name, value>>)
  ELSE Append(props, <<name, value>>)

RECURSIVE DefineAll(_, _)
DefineAll(props, entries) ==
  IF entries = <<>> THEN props
  ELSE DefineAll(DefineProperty(props, ToStringJS(Head(entries)[1]), Head(entries)[2]),
                 Tail(entries))

ObjectFromEntries(entries) == Obj(DefineAll(<<>>, entries))

\* ------------------------------------------------------- smartKeyNormalizer
\* A replacer that also puts the fields of a plain object in the order of
\* their names.
ReplacerSortingFields(value) ==
  IF value.t = "object"
    THEN ObjectFromEntries(
           ArraySort("entry", [i \in 1..Len(value.props) |->
                                 <<Str(value.props[i][1]), value.props[i][2]>>]))
  ELSE CASE value.t = "bigint" -> Str(NumberToString(value.big))
         [] value.t = "uint8array" -> BytesToArray(value.bytes)
         [] value.t = "arraybuffer" -> BytesToArray(value.buf)
         [] value.t = "map" -> ObjectFromEntries(ArraySort("entry", value.entries))
         [] value.t = "set" -> Arr(ArraySort("default", value.elems))
         [] value.t = "regexp" -> Str(RegExpToString(value))
         [] OTHER -> value

\* The replacer of smartKeyNormalizer: the first case that matches.
KeyReplacer(value) ==
  CASE value.t = "bigint" -> Str(NumberToString(value.big))
    [] value.t = "uint8array" -> BytesToArray(value.bytes)
    [] value.t = "arraybuffer" -> BytesToArray(value.buf)
    [] value.t = "map" -> ObjectFromEntries(ArraySort("entry", value.entries))
    [] value.t = "set" -> Arr(ArraySort("default", value.elems))
    [] value.t = "regexp" -> Str(RegExpToString(value))
    [] OTHER -> value

\* A toJSON step that turns only a Date into a string.
ToJSONOfDateOnly(value) == IF value.t = "date" THEN Str(ToISOString(value.ms)) ELSE value

\* JSON.stringify's toJSON step, which runs before the replacer: a Date and
\* a URL have one.
ToJSON(value) ==
  CASE value.t = "date" -> Str(ToISOString(value.ms))
    [] value.t = "url" -> Str(value.href)
    [] OTHER -> value

\* JSON.stringify(value, replacer): the text, or <<>> where JSON.stringify
\* yields undefined (undefined itself; a function or a symbol would too).
RECURSIVE SerializeJSONProperty(_)
RECURSIVE SerializeJSONArray(_)
RECURSIVE SerializeJSONObject(_)
\* The text of a value that toJSON and the replacer have been applied to.
SerializeJSONValue(value) ==
  CASE value.t = "null" -> <<"n", "u", "l", "l">>
    [] value.t = "boolean" ->
         IF value.b THEN <<"t", "r", "u", "e">> ELSE <<"f", "a", "l", "s", "e">>
    [] value.t = "string" -> QuoteJSONString(value.s)
    [] value.t = "number" -> NumberToString(value.n)
    [] value.t = "array" -> <<"[">> \o SerializeJSONArray(value.items) \o <<"]">>
    [] value.t = "object" -> <<"{">> \o SerializeJSONObject(value.props) \o <<"}">>
    [] OTHER -> <<>>

SerializeJSONProperty(holderValue) == SerializeJSONValue(KeyReplacer(ToJSON(holderValue)))

\* An element with no text is written null.
ElementText(text) == IF text = <<>> THEN <<"n", "u", "l", "l">> ELSE text

\* The elements, comma separated.
SerializeJSONArray(items) ==
  IF items = <<>> THEN <<>>
  ELSE IF Len(items) = 1 THEN ElementText(SerializeJSONProperty(Head(items)))
  ELSE ElementText(SerializeJSONProperty(Head(items))) \o <<",">>
         \o SerializeJSONArray(Tail(items))

\* A property with no text is left out.
MemberText(name, text, rest) ==
  IF text = <<>> THEN rest
  ELSE QuoteJSONString(name) \o <<":">> \o text \o (IF rest = <<>> THEN <<>> ELSE <<",">> \o rest)

\* The properties, comma separated.
SerializeJSONObject(props) ==
  IF props = <<>> THEN <<>>
  ELSE MemberText(Head(props)[1], SerializeJSONProperty(Head(props)[2]),
                  SerializeJSONObject(Tail(props)))

\* smartKeyNormalizer()(key): key is the argument tuple, an array.
smartKeyNormalizer(key) == Text(SerializeJSONProperty(Arr(key)))

\* ------------------------------------------------------- smartValueSerializer
\* URLSearchParams.prototype.toString: the application/x-www-form-urlencoded
\* form of the pairs. A letter, a digit and * - . _ stay, a space becomes +,
\* any other character its percent-encoded byte.
HexChar(d) == IF d < 10 THEN DigitChar(d) ELSE Ascii[CharCode("A") - 31 + (d - 10)]

IsFormSafe(c) ==
  \/ CharCode(c) \in 48..57
  \/ CharCode(c) \in 65..90
  \/ CharCode(c) \in 97..122
  \/ c \in {"*", "-", ".", "_"}

FormEncodeChar(c) ==
  IF IsFormSafe(c) THEN <<c>>
  ELSE IF c = " " THEN <<"+">>
  ELSE <<"%", HexChar(CharCode(c) \div 16), HexChar(CharCode(c) % 16)>>

RECURSIVE FormEncode(_)
FormEncode(chars) ==
  IF chars = <<>> THEN <<>> ELSE FormEncodeChar(Head(chars)) \o FormEncode(Tail(chars))

FormSerialize(pairs) ==
  JoinStrings([i \in 1..Len(pairs) |-> FormEncode(pairs[i][1]) \o <<"=">> \o FormEncode(pairs[i][2])],
              <<"&">>)

\* new URLSearchParams(string): the pairs of the &-separated sequences, each
\* split at its first =, + read as a space and %XX as a byte.
HexValue(c) == IF CharCode(c) \in 48..57 THEN CharCode(c) - 48 ELSE CharCode(c) - 55

RECURSIVE FormDecode(_)
FormDecode(chars) ==
  IF chars = <<>> THEN <<>>
  ELSE IF Head(chars) = "+" THEN <<" ">> \o FormDecode(Tail(chars))
  ELSE IF Head(chars) = "%" /\ Len(chars) >= 3
    THEN <<Ascii[16 * HexValue(chars[2]) + HexValue(chars[3]) - 31]>>
           \o FormDecode(SubSeq(chars, 4, Len(chars)))
  ELSE <<Head(chars)>> \o FormDecode(Tail(chars))

\* The pieces of chars between the occurrences of sep.
RECURSIVE SplitAt(_, _, _)
SplitAt(chars, sep, piece) ==
  IF chars = <<>> THEN <<piece>>
  ELSE IF Head(chars) = sep THEN <<piece>> \o SplitAt(Tail(chars), sep, <<>>)
  ELSE SplitAt(Tail(chars), sep, Append(piece, Head(chars)))

FirstIndex(chars, c) ==
  IF \E i \in 1..Len(chars) : chars[i] = c
    THEN CHOOSE i \in 1..Len(chars) : chars[i] = c /\ \A j \in 1..(i - 1) : chars[j] # c
    ELSE Len(chars) + 1

FormPair(piece) ==
  <<FormDecode(SubSeq(piece, 1, FirstIndex(piece, "=") - 1)),
    FormDecode(SubSeq(piece, FirstIndex(piece, "=") + 1, Len(piece)))>>

FormParse(chars) ==
  LET pieces == SelectSeq(SplitAt(chars, "&", <<>>), LAMBDA piece : piece # <<>>)
  IN [i \in 1..Len(pieces) |-> FormPair(pieces[i])]

\* The property names of the tagged forms.
DollarBigint == <<"$", "b", "i", "g", "i", "n", "t">>
DollarUint8array == <<"$", "u", "i", "n", "t", "8", "a", "r", "r", "a", "y">>
DollarArraybuffer == <<"$", "a", "r", "r", "a", "y", "b", "u", "f", "f", "e", "r">>
DollarMap == <<"$", "m", "a", "p">>
DollarSet == <<"$", "s", "e", "t">>
DollarUrlsearchparams == <<"$", "u", "r", "l", "s", "e", "a", "r", "c", "h", "p", "a", "r", "a", "m", "s">>
DollarRegexp == <<"$", "r", "e", "g", "e", "x", "p">>

\* An object with one property.
Tagged(name, value) == Obj(<< <<name, value>> >>)

\* The replacer of smartValueSerializer.stringify: the first case that matches.
ValueReplacer(value) ==
  CASE value.t = "bigint" -> Tagged(DollarBigint, Str(NumberToString(value.big)))
    [] value.t = "uint8array" -> Tagged(DollarUint8array, BytesToArray(value.bytes))
    [] value.t = "arraybuffer" -> Tagged(DollarArraybuffer, BytesToArray(value.buf))
    [] value.t = "map" ->
         Tagged(DollarMap, Arr([i \in 1..Len(value.entries) |-> Arr(value.entries[i])]))
    [] value.t = "set" -> Tagged(DollarSet, Arr(value.elems))
    [] value.t = "urlsearchparams" ->
         Tagged(DollarUrlsearchparams, Str(FormSerialize(value.pairs)))
    [] value.t = "regexp" ->
         Tagged(DollarRegexp, Obj(<< <<<<"s">>, Str(value.source)>>, <<<<"f">>, Str(value.flags)>> >>))
    [] OTHER -> value

\* JSON.stringify(value, replacer) with that replacer: the text, or <<>> where
\* JSON.stringify yields undefined.
RECURSIVE StringifyProperty(_)
RECURSIVE StringifyArray(_)
RECURSIVE StringifyObject(_)
StringifyValue(value) ==
  CASE value.t = "null" -> <<"n", "u", "l", "l">>
    [] value.t = "boolean" ->
         IF value.b THEN <<"t", "r", "u", "e">> ELSE <<"f", "a", "l", "s", "e">>
    [] value.t = "string" -> QuoteJSONString(value.s)
    [] value.t = "number" -> NumberToString(value.n)
    [] value.t = "array" -> <<"[">> \o StringifyArray(value.items) \o <<"]">>
    [] value.t = "object" -> <<"{">> \o StringifyObject(value.props) \o <<"}">>
    [] OTHER -> <<>>

StringifyProperty(holderValue) == StringifyValue(ValueReplacer(ToJSON(holderValue)))

StringifyArray(items) ==
  IF items = <<>> THEN <<>>
  ELSE IF Len(items) = 1 THEN ElementText(StringifyProperty(Head(items)))
  ELSE ElementText(StringifyProperty(Head(items))) \o <<",">> \o StringifyArray(Tail(items))

StringifyObject(props) ==
  IF props = <<>> THEN <<>>
  ELSE MemberText(Head(props)[1], StringifyProperty(Head(props)[2]),
                  StringifyObject(Tail(props)))

\* smartValueSerializer().stringify(value)
stringify(value) == StringifyProperty(value)

\* "name" in value, and value[name], on a plain object.
HasProperty(value, name) == \E i \in 1..Len(value.props) : value.props[i][1] = name
GetProperty(value, name) ==
  IF HasProperty(value, name)
    THEN value.props[CHOOSE i \in 1..Len(value.props) : value.props[i][1] = name][2]
    ELSE Undefined

\* BigInt(value) of a string of digits or of a number.
ToBigInt(value) ==
  BigIntV(IF value.t = "string" THEN StringToNumber(value.s)[2] ELSE value.n)

\* new Uint8Array(array): each element as a byte.
ToBytes(array) == [i \in 1..Len(array.items) |-> array.items[i].n % 256]

\* SameValueZero on values: a primitive equals a primitive of the same kind
\* and content; an object made by the parse equals no other.
SameValueZero(a, b) == IsPrimitive(a) /\ a = b

\* new Map(entries): a later entry with the key of an earlier one replaces
\* its value in place.
RECURSIVE MapFromEntries(_, _)
MapFromEntries(entries, pairs) ==
  IF pairs = <<>> THEN entries
  ELSE LET pair == Head(pairs).items
       IN MapFromEntries(
            IF \E i \in 1..Len(entries) : SameValueZero(entries[i][1], pair[1])
              THEN [i \in 1..Len(entries) |->
                      IF SameValueZero(entries[i][1], pair[1]) THEN <<pair[1], pair[2]>>
                      ELSE entries[i]]
              ELSE Append(entries, <<pair[1], pair[2]>>),
            Tail(pairs))

\* new Set(elements): an element already present is not added again.
RECURSIVE SetFromElements(_, _)
SetFromElements(elems, items) ==
  IF items = <<>> THEN elems
  ELSE SetFromElements(
         IF \E i \in 1..Len(elems) : SameValueZero(elems[i], Head(items)) THEN elems
         ELSE Append(elems, Head(items)),
         Tail(items))

\* A reviver that returns every value as it is.
RevivesNothing(value) == value

\* A reviver that looks for $regexp before $urlsearchparams.
ReviverRegexpFirst(value) ==
  CASE HasProperty(value, DollarBigint) -> ToBigInt(GetProperty(value, DollarBigint))
    [] HasProperty(value, DollarUint8array) ->
         Uint8ArrayV(ToBytes(GetProperty(value, DollarUint8array)))
    [] HasProperty(value, DollarArraybuffer) ->
         ArrayBufferV(ToBytes(GetProperty(value, DollarArraybuffer)))
    [] HasProperty(value, DollarMap) ->
         MapV(MapFromEntries(<<>>, GetProperty(value, DollarMap).items))
    [] HasProperty(value, DollarSet) ->
         SetV(SetFromElements(<<>>, GetProperty(value, DollarSet).items))
    [] HasProperty(value, DollarRegexp) ->
         RegExpV(GetProperty(GetProperty(value, DollarRegexp), <<"s">>).s,
                 GetProperty(GetProperty(value, DollarRegexp), <<"f">>).s)
    [] HasProperty(value, DollarUrlsearchparams) ->
         URLSearchParamsV(FormParse(GetProperty(value, DollarUrlsearchparams).s))
    [] OTHER -> value

\* The reviver of smartValueSerializer.parse on a non-null object that is not
\* an array: the first case that matches.
ValueReviver(value) ==
  CASE HasProperty(value, DollarBigint) -> ToBigInt(GetProperty(value, DollarBigint))
    [] HasProperty(value, DollarUint8array) ->
         Uint8ArrayV(ToBytes(GetProperty(value, DollarUint8array)))
    [] HasProperty(value, DollarArraybuffer) ->
         ArrayBufferV(ToBytes(GetProperty(value, DollarArraybuffer)))
    [] HasProperty(value, DollarMap) ->
         MapV(MapFromEntries(<<>>, GetProperty(value, DollarMap).items))
    [] HasProperty(value, DollarSet) ->
         SetV(SetFromElements(<<>>, GetProperty(value, DollarSet).items))
    [] HasProperty(value, DollarUrlsearchparams) ->
         URLSearchParamsV(FormParse(GetProperty(value, DollarUrlsearchparams).s))
    [] HasProperty(value, DollarRegexp) ->
         RegExpV(GetProperty(GetProperty(value, DollarRegexp), <<"s">>).s,
                 GetProperty(GetProperty(value, DollarRegexp), <<"f">>).s)
    [] OTHER -> value

\* JSON.parse(text, reviver) on a text without white space: the value read at
\* the head of chars and the characters after it. The reviver is applied to
\* an object when its properties have been read and revived.
RECURSIVE ParseJSONChars(_, _)
ParseJSONChars(chars, acc) ==
  IF Head(chars) = "\"" THEN [v |-> acc, rest |-> Tail(chars)]
  ELSE IF Head(chars) = "\\" THEN ParseJSONChars(Tail(Tail(chars)), Append(acc, chars[2]))
  ELSE ParseJSONChars(Tail(chars), Append(acc, Head(chars)))

RECURSIVE ParseJSONDigits(_, _)
ParseJSONDigits(chars, acc) ==
  IF chars # <<>> /\ CharCode(Head(chars)) \in 48..57
    THEN ParseJSONDigits(Tail(chars), 10 * acc + (CharCode(Head(chars)) - 48))
    ELSE [v |-> acc, rest |-> chars]

After(chars, n) == SubSeq(chars, n + 1, Len(chars))

RECURSIVE ParseJSONValue(_)
RECURSIVE ParseJSONElements(_, _)
RECURSIVE ParseJSONMembers(_, _)
ParseJSONValue(chars) ==
  CASE Head(chars) = "n" -> [v |-> Null, rest |-> After(chars, 4)]
    [] Head(chars) = "t" -> [v |-> Bool(TRUE), rest |-> After(chars, 4)]
    [] Head(chars) = "f" -> [v |-> Bool(FALSE), rest |-> After(chars, 5)]
    [] Head(chars) = "\"" ->
         [v |-> Str(ParseJSONChars(Tail(chars), <<>>).v),
          rest |-> ParseJSONChars(Tail(chars), <<>>).rest]
    [] Head(chars) = "[" ->
         IF chars[2] = "]" THEN [v |-> Arr(<<>>), rest |-> After(chars, 2)]
         ELSE ParseJSONElements(Tail(chars), <<>>)
    [] Head(chars) = "{" ->
         IF chars[2] = "}" THEN [v |-> Obj(<<>>), rest |-> After(chars, 2)]
         ELSE ParseJSONMembers(Tail(chars), <<>>)
    [] Head(chars) = "-" ->
         [v |-> Num(0 - ParseJSONDigits(Tail(chars), 0).v),
          rest |-> ParseJSONDigits(Tail(chars), 0).rest]
    [] OTHER ->
         [v |-> Num(ParseJSONDigits(chars, 0).v), rest |-> ParseJSONDigits(chars, 0).rest]

ParseJSONElements(chars, items) ==
  LET element == ParseJSONValue(chars)
  IN IF Head(element.rest) = ","
       THEN ParseJSONElements(Tail(element.rest), Append(items, element.v))
       ELSE [v |-> Arr(Append(items, element.v)), rest |-> Tail(element.rest)]

ParseJSONMembers(chars, props) ==
  LET name == ParseJSONChars(Tail(chars), <<>>)
      member == ParseJSONValue(Tail(name.rest))
  IN IF Head(member.rest) = ","
       THEN ParseJSONMembers(Tail(member.rest), DefineProperty(props, name.v, member.v))
       ELSE [v |-> ValueReviver(Obj(DefineProperty(props, name.v, member.v))),
             rest |-> Tail(member.rest)]

\* The texts JSON.parse rejects with a SyntaxError: among the texts a
\* Storage holds here, the empty text and the text "undefined".
IsJSONText(chars) == chars # <<>> /\ Head(chars) # "u"

SyntaxError == [t |-> "error", of |-> "parse"]

\* smartValueSerializer().parse(string): the value, or the error thrown.
parse(chars) == IF IsJSONText(chars) THEN ParseJSONValue(chars).v ELSE SyntaxError

\* ------------------------------------------------------- memoryCache
\* Argument tuples of the wrapper calls: the number 0, and one Set built in
\* two insertion orders (two tuples, one normalized key).
Args ==
  { <<Num(0)>>,
    <<SetV(<<Num(1), Num(2)>>)>>,
    <<SetV(<<Num(2), Num(1)>>)>> }

\* Argument tuples of the listed kinds of value: a number, strings, a bigint,
\* a boolean, byte buffers, an array, plain objects, Maps, Sets, a Date and a
\* RegExp; the objects, the Maps and the Sets are built in two orders.
KeyArgs ==
  { <<Num(1)>>, <<Str(<<"1">>)>>, <<BigIntV(1)>>, <<Bool(TRUE)>>,
    <<Num(1), Num(2)>>, <<Arr(<<Num(1), Num(2)>>)>>,
    <<Uint8ArrayV(<<1, 2>>)>>, <<ArrayBufferV(<<1, 2>>)>>,
    <<SetV(<<Num(1), Num(2)>>)>>, <<SetV(<<Num(2), Num(1)>>)>>,
    <<Obj(<< <<<<"a">>, Num(1)>>, <<<<"b">>, Num(2)>> >>)>>,
    <<Obj(<< <<<<"b">>, Num(2)>>, <<<<"a">>, Num(1)>> >>)>>,
    <<MapV(<< <<Str(<<"a">>), Num(1)>>, <<Str(<<"b">>), Num(2)>> >>)>>,
    <<MapV(<< <<Str(<<"b">>), Num(2)>>, <<Str(<<"a">>), Num(1)>> >>)>>,
    <<DateV(0)>>, <<Str(ToISOString(0))>>,
    <<RegExpV(<<"a">>, <<>>)>>, <<Str(<<"/", "a", "/">>)>> }

\* Argument tuples of primitives, plain objects, arrays and Dates.
PlainArgs ==
  {key \in KeyArgs :
     \A i \in DOMAIN key :
       key[i].t \in {"number", "string", "boolean", "array", "object", "date"}}
    \cup {<<Null>>, <<Undefined>>}

\* Argument tuples of the calls to a wrapper whose result cache has a custom
\* key normalizer: the number 0, the string "0", the number 1.
StringArgs == {<<Num(0)>>, <<Str(<<"0">>)>>, <<Num(1)>>}

\* The elements of the Sets and the keys of the Maps passed as arguments:
\* numbers, strings and plain objects.
ObjectA == Obj(<< <<<<"a">>, Num(1)>> >>)
ObjectB == Obj(<< <<<<"b">>, Num(2)>> >>)
SetElements == {Num(2), Num(10), Str(<<"a">>), ObjectA, ObjectB}
MapKeys == {Num(2), Str(<<"a">>), Str(<<"b">>), ObjectA, ObjectB}

\* Argument tuples of one Set of two elements, or one Map of two entries
\* (each key mapped to itself), in each insertion order.
Distinct(S) == {p \in S \X S : p[1] # p[2]}

CollectionArgs ==
  {<<SetV(<<p[1], p[2]>>)>> : p \in Distinct(SetElements)}
    \cup {<<MapV(<< <<p[1], p[1]>>, <<p[2], p[2]>> >>)>> : p \in Distinct(MapKeys)}

\* The results of the function memoized over domStorageCache, by its
\* argument: values of each kind smartValueSerializer names, values nested in
\* each other and in plain arrays and objects, a Date and a URL.
StorageResults ==
  << BigIntV(1),
     Uint8ArrayV(<<1, 2>>),
     ArrayBufferV(<<1>>),
     MapV(<< <<Str(<<"a">>), Num(1)>>, <<Str(<<"b">>), Num(2)>> >>),
     SetV(<<Num(1), Str(<<"b">>)>>),
     RegExpV(<<"^", "1", "$">>, <<"g">>),
     URLSearchParamsV(<< <<<<"a">>, <<"1">>>>, <<<<"a">>, <<"2", " ", "&">>>> >>),
     Arr(<<Obj(<< <<<<"a">>, MapV(<< <<Str(<<"a">>), SetV(<<BigIntV(1)>>)>> >>)>> >>)>>),
     MapV(<< <<SetV(<<BigIntV(2)>>), Uint8ArrayV(<<255>>)>>,
             <<RegExpV(<<"a">>, <<>>), URLSearchParamsV(<< <<<<"q">>, <<>>>> >>)>> >>),
     Obj(<< <<<<"b">>, ArrayBufferV(<<>>)>>, <<<<"a">>, Arr(<<BigIntV(0 - 3), SetV(<<>>)>>)>> >>),
     DateV(1),
     URLV(<<"h", "t", "t", "p", "s", ":", "/", "/", "e", "x", "a", "m", "p", "l", "e", ".", "c", "o", "m", "/", "1", "/", "b">>) >>

\* fn: (a) => the result listed for a.
StorageFn(args) == StorageResults[args[1].n]

StorageArgs == {<<Num(a)>> : a \in 1..Len(StorageResults)}

\* storage.setItem(key, value): a value that is not a string is stored as
\* String(value); JSON.stringify yields undefined for some values.
ItemText(text) == IF text = <<>> THEN <<"u", "n", "d", "e", "f", "i", "n", "e", "d">> ELSE text

\* The stored text of each result and the value parsed from each stored
\* text, computed once.
Stringified == [value \in {StorageResults[i] : i \in 1..Len(StorageResults)} |->
                  ItemText(stringify(value))]
Parsed == [text \in {Stringified[value] : value \in DOMAIN Stringified} |-> parse(text)]

\* Argument tuples of one value JSON.stringify has no text for: undefined,
\* two Symbols, two functions; and the tuple of null.
UnsupportedArgs ==
  {<<Undefined>>, <<SymbolV(1)>>, <<SymbolV(2)>>, <<FunctionV(1)>>, <<FunctionV(2)>>, <<Null>>}

\* The orders in which the fields of an object literal are written: names
\* that are not array indices, names that are, and both kinds.
InsertionOrders ==
  { << <<Str(<<"a">>), Num(1)>>, <<Str(<<"b">>), Num(2)>> >>,
    << <<Str(<<"b">>), Num(2)>>, <<Str(<<"a">>), Num(1)>> >>,
    << <<Str(<<"1">>), Num(1)>>, <<Str(<<"2">>), Num(2)>> >>,
    << <<Str(<<"2">>), Num(2)>>, <<Str(<<"1">>), Num(1)>> >>,
    << <<Str(<<"b">>), Num(1)>>, <<Str(<<"7">>), Num(2)>> >>,
    << <<Str(<<"7">>), Num(2)>>, <<Str(<<"b">>), Num(1)>> >> }

\* The object an object literal with these fields creates.
Literal(entries) == ObjectFromEntries(entries)

\* Argument tuples of one such object, of one array in each order of its
\* elements, and of an object and an array.
OrderArgs ==
  {<<Literal(entries)>> : entries \in InsertionOrders}
    \cup { <<Arr(<<Num(1), Num(2)>>)>>, <<Arr(<<Num(2), Num(1)>>)>>,
           <<Literal(<< <<Str(<<"a">>), Str(<<"a">>)>>, <<Str(<<"b">>), Num(1)>> >>),
             Arr(<<Bool(TRUE), Null>>)>> }

\* The normalized keys of the argument tuples, computed once.
NormalizedArgs ==
  [key \in Args \cup KeyArgs \cup PlainArgs \cup StringArgs \cup CollectionArgs
            \cup StorageArgs \cup UnsupportedArgs \cup OrderArgs |->
     smartKeyNormalizer(key)]

\* A key normalizer that keeps the type of the key apart, as the default does.
TypedKeyNormalizer(key) == smartKeyNormalizer(key)

\* A custom key normalizer: ([key]) => String(key).
stringKeyNormalizer(key) == Text(ToStringJS(key[1]))

\* Argument tuples of the calls to memoize(Fn) over that cache: numbers and
\* the strings of their digits.
CustomKeyArgs ==
  {<<Num(0)>>, <<Str(<<"0">>)>>, <<Num(1)>>, <<Str(<<"1">>)>>, <<Num(2)>>, <<Str(<<"2">>)>>}

\* Its keys for the argument tuples it is used with, computed once.
StringKeys == [key \in StringArgs \cup CustomKeyArgs |-> stringKeyNormalizer(key)]

\* A normalizer that gives every key the string of [0].
SingleKey(key) == NormalizedArgs[<<Num(0)>>]

\* memoryCache's normalize: options?.keyNormalizer ?? smartKeyNormalizer().
normalize(key) == NormalizedArgs[key]

\* memoryCache's get, set and delete on its Map (normalized key -> value).
MapGet(m, k) == IF k \in DOMAIN m THEN m[k] ELSE Undefined
MapSet(m, k, value) == [x \in DOMAIN m \cup {k} |-> IF x = k THEN value ELSE m[x]]
MapDelete(m, k) == [x \in DOMAIN m \ {k} |-> m[x]]

\* An object known by its identity: two references are the same object
\* exactly when their ids are equal. A copy of an object is another object.
Ref(id) == [t |-> "reference", id |-> id]
Copy(value) == IF value.t = "reference" THEN Ref(value.id + 100) ELSE value

\* A set that stores a copy of the value.
SetStoringCopy(m, key, value) == MapSet(m, normalize(key), Copy(value))

memoryCacheGet(m, key) == MapGet(m, normalize(key))
memoryCacheSet(m, key, value) == MapSet(m, normalize(key), value)
\* A delete that removes nothing.
KeepsEntry(m, key) == m
memoryCacheDelete(m, key) == MapDelete(m, normalize(key))

\* ------------------------------------------------------- the wrapped function, the options

\* What the wrapped function may return.
Results == {Undefined, Null, Num(0), Str(<<"f", "o", "o", "b", "a", "r">>)}

\* An error, named after the operation that raised it.
Err(of) == [t |-> "error", of |-> of]

\* A promise handle, as the promise cache stores it.
PromiseV(id) == [t |-> "promise", id |-> id]

\* One invocation of the wrapped function: it returns a value, throws, or
\* (an async function) returns a promise that rejects.
FnOutcomes(wrapper) ==
  [kind : {"return"}, v : Results]
    \cup {[kind |-> "throw", v |-> Err("fn")]}
    \cup (IF wrapper = "memoizeAsync" THEN {[kind |-> "reject", v |-> Err("fn")]} ELSE {})

\* The options a wrapper is built with. cache: the default memoryCache(), or
\* a caller's backend whose operations may fail. Each policy: absent, or the
\* predicate written beside it.
OptionSets ==
  [wrapper : {"memoize", "memoizeAsync"},
   cache : {"memoryCache", "custom"},
   shouldRecalculate : {"absent", "zeroArgument"},
   shouldCache : {"absent", "lengthAtLeast3"}]

\* shouldRecalculate: (_result, a) => a === 0
ShouldRecalculate(result, args) == args[1] = Num(0)

\* shouldCache: (result) => result.length >= 3
ShouldCache(result, args) == result.t = "string" /\ Len(result.s) >= 3

\* How one operation of the result cache may end: the default memoryCache never
\* fails; a caller's backend returns, throws, or (memoizeAsync) returns a promise
\* that rejects.
CacheModes(opts) ==
  IF opts.cache \in {"memoryCache", "nullMiss", "stringKeys", "domStorage"} THEN {"ok"}
  ELSE IF opts.wrapper = "memoize" THEN {"ok", "throw"}
  ELSE {"ok", "throw", "reject"}

\* How one cache.get may end: a "nullMiss" backend reports a missing entry
\* as undefined ("ok") or as null ("null").
GetModes(opts) == IF opts.cache = "nullMiss" THEN {"ok", "null"} ELSE CacheModes(opts)

\* How one call of a policy callback may end.
PolicyModes(opts) ==
  IF opts.cache \in {"memoryCache", "nullMiss", "stringKeys", "domStorage"} THEN {"ok"}
  ELSE IF opts.wrapper = "memoize" THEN {"ok", "throw"}
  ELSE {"ok", "throw", "reject"}

\* One operation a wrapper call performed: its name, its key, its value.
Op(name, key, v) == [op |-> name, key |-> key, v |-> v]

\* ------------------------------------------------------- state
VARIABLES
  options,     \* the options the wrapper under check was built with
  map,         \* the result cache's Map: normalized key -> result
  promiseMap,  \* the promise cache's Map: normalized key -> promise
  tasks,       \* promise id -> the run of memoizeAsync's inner async function
  ncalls,      \* wrapper calls issued so far
  latest,      \* normalized key -> how the latest run that called fn for it ended
  last,        \* what the latest step was: a call, a finished run, or neither
  history      \* the calls of a wrapper over a deterministic fn, in order

vars == <<options, map, promiseMap, tasks, ncalls, latest, last, history>>

NoEvent == [ev |-> "none"]

\* The key prefix the domStorageCache is built with.
keyPrefix == "val:"

\* The key of the result cache's entry: the key normalizer of memoryCache(),
\* the custom one of memoryCache({ keyNormalizer }) ("stringKeys"), or
\* keyPrefix + normalize(key) of domStorageCache ("domStorage").
resultNormalize(key) ==
  IF options.cache = "stringKeys" THEN StringKeys[key]
  ELSE IF options.cache = "domStorage" THEN keyPrefix \o normalize(key)
  ELSE normalize(key)

\* A set that leaves the key prefix out of the storage key.
SetWithoutPrefix(storage, key, value) == MapSet(storage, normalize(key), Stringified[value])

\* domStorageCache's get, set and delete on the Storage (key -> text).
domStorageCacheGet(storage, key) ==
  IF resultNormalize(key) \in DOMAIN storage THEN Parsed[storage[resultNormalize(key)]]
  ELSE Undefined
domStorageCacheSet(storage, key, value) ==
  MapSet(storage, resultNormalize(key), Stringified[value])
domStorageCacheDelete(storage, key) == MapDelete(storage, resultNormalize(key))

\* A set that keeps the entry a key already has.
SetIfAbsent(m, key, value) ==
  IF resultNormalize(key) \in DOMAIN m THEN m ELSE MapSet(m, resultNormalize(key), value)

\* get, set and delete of the result cache on its Map or Storage.
\* A delete that empties the cache.
DeleteEveryEntry(m, key) == <<>>

\* "alwaysZero" is the backend { get() { return 0 }, set() {}, delete() {} }.
resultCacheGet(m, key) ==
  IF options.cache = "domStorage" THEN domStorageCacheGet(m, key)
  ELSE IF options.cache = "alwaysZero" THEN Num(0)
  ELSE MapGet(m, resultNormalize(key))
resultCacheSet(m, key, value) ==
  IF options.cache = "domStorage" THEN domStorageCacheSet(m, key, value)
  ELSE IF options.cache = "alwaysZero" THEN m
  ELSE MapSet(m, resultNormalize(key), value)
resultCacheDelete(m, key) ==
  IF options.cache = "domStorage" THEN domStorageCacheDelete(m, key)
  ELSE IF options.cache = "alwaysZero" THEN m
  ELSE MapDelete(m, resultNormalize(key))

\* cache.get throws: serializer.parse rejects the stored text.
ReadFails(m, key) == options.cache = "domStorage" /\ resultCacheGet(m, key) = SyntaxError

\* What a cache.get that returns yields: the entry, or a nullish value.
CacheRead(m, key, mode) ==
  IF mode = "null" /\ IsNullish(resultCacheGet(m, key)) THEN Null
  ELSE resultCacheGet(m, key)

\* The argument tuples the wrapper under check is called with.
CallArgs == IF options.cache = "stringKeys" THEN StringArgs ELSE Args

\* The operations a run performed, by name.
Performed(run) == {run.log[i].op : i \in 1..Len(run.log)}

\* How a finished run ended: the operation whose error it raised, or a cache
\* hit, or fn's result stored, nullish, or refused by shouldCache.
Ending(run) ==
  IF run.state = "rejected" THEN run.value.of
  ELSE IF "fn" \notin Performed(run) THEN "hit"
  ELSE IF "set" \in Performed(run) THEN "stored"
  ELSE IF IsNullish(run.newResult) THEN "nullish"
  ELSE "notAdmitted"

\* latest, once run has finished: a hit leaves it alone, a run that called fn
\* records its ending, a failure of another operation forgets the key.
Finished(run) ==
  IF Ending(run) = "hit" THEN latest
  ELSE IF Ending(run) \in {"fn", "stored", "nullish", "notAdmitted"}
    THEN MapSet(latest, resultNormalize(run.args), Ending(run))
  ELSE MapDelete(latest, resultNormalize(run.args))

\* A run of one wrapper call at its start.
NewRun(args) ==
  [args |-> args, pc |-> "start", result |-> Undefined, newResult |-> Undefined,
   awaited |-> [ok |-> TRUE, v |-> Undefined], log |-> <<>>, sharers |-> 1,
   state |-> "pending", value |-> Undefined,
   after |-> IF resultNormalize(args) \in DOMAIN latest THEN latest[resultNormalize(args)]
             ELSE "none"]

Logged(run, name, v) == [run EXCEPT !.log = Append(@, Op(name, run.args, v))]

\* The run ends: the wrapper returns or resolves with v / throws or rejects with v.
Fulfil(run, v) ==
  [run EXCEPT !.pc = "done", !.state = "fulfilled", !.value = v,
              !.awaited = [ok |-> TRUE, v |-> Undefined]]
Reject(run, v) ==
  [run EXCEPT !.pc = "done", !.state = "rejected", !.value = v,
              !.awaited = [ok |-> TRUE, v |-> Undefined]]

Init ==
  /\ options \in OptionSets
  /\ map = <<>>
  /\ promiseMap = <<>>
  /\ tasks = <<>>
  /\ ncalls = 0
  /\ latest = <<>>
  /\ last = NoEvent
  /\ history = <<>>

\* ------------------------------------------------------- memoize
\* The choices of the environment during one call of the memoize wrapper: how
\* cache.get, shouldRecalculate, fn, shouldCache and cache.set/delete end.
MemoizeEnvs(opts) ==
  [get : GetModes(opts), recalc : PolicyModes(opts), fn : FnOutcomes("memoize"),
   admit : PolicyModes(opts), write : CacheModes(opts)]

\* A hit test that takes only undefined for a miss.
HitUnlessUndefined(opts, result, args) ==
  /\ result # Undefined
  /\ ~(opts.shouldRecalculate # "absent" /\ ShouldRecalculate(result, args))

\* A hit test that never succeeds, and one that does not ask shouldRecalculate.
NeverHit(opts, result, args) == FALSE
HitIgnoringPolicy(opts, result, args) == ~IsNullish(result)

\* A hit test that takes every falsy value for a miss.
HitIfTruthy(opts, result, args) ==
  /\ ~IsNullish(result)
  /\ result \notin {Num(0), Bool(FALSE), Str(<<>>)}
  /\ ~(opts.shouldRecalculate # "absent" /\ ShouldRecalculate(result, args))

\* result != null && !options?.shouldRecalculate?.(result, ...args)
MemoizeHit(opts, result, args) ==
  /\ ~IsNullish(result)
  /\ ~(opts.shouldRecalculate # "absent" /\ ShouldRecalculate(result, args))

\* An admission test that admits everything, and one that does not ask
\* shouldCache.
AdmitsAll(opts, newResult, args) == TRUE
AdmitsNonNullish(opts, newResult, args) == ~IsNullish(newResult)

\* newResult != null && (options?.shouldCache?.(newResult, ...args) ?? true)
MemoizeAdmit(opts, newResult, args) ==
  /\ ~IsNullish(newResult)
  /\ (opts.shouldCache # "absent" => ShouldCache(newResult, args))

\* A store that returns newResult although cache.set or cache.delete threw.
StoreSwallowingFailure(opts, m, env, run) ==
  IF MemoizeAdmit(opts, run.newResult, run.args)
    THEN [run |-> Fulfil(Logged(run, "set", run.newResult), run.newResult),
          map |-> IF env.write = "throw" THEN m
                  ELSE resultCacheSet(m, run.args, run.newResult)]
    ELSE [run |-> Fulfil(Logged(run, "delete", Undefined), run.newResult),
          map |-> IF env.write = "throw" THEN m ELSE resultCacheDelete(m, run.args)]

\* A store that leaves the cache alone when the result is not admitted.
StoreWithoutDelete(opts, m, env, run) ==
  IF MemoizeAdmit(opts, run.newResult, run.args)
    THEN IF env.write = "throw"
           THEN [run |-> Reject(Logged(run, "set", run.newResult), Err("set")), map |-> m]
           ELSE [run |-> Fulfil(Logged(run, "set", run.newResult), run.newResult),
                 map |-> resultCacheSet(m, run.args, run.newResult)]
    ELSE [run |-> Fulfil(run, run.newResult), map |-> m]

\* cache.set(args, newResult) or cache.delete(args), then return newResult.
MemoizeStore(opts, m, env, run) ==
  IF MemoizeAdmit(opts, run.newResult, run.args)
    THEN IF env.write = "throw"
           THEN [run |-> Reject(Logged(run, "set", run.newResult), Err("set")), map |-> m]
           ELSE [run |-> Fulfil(Logged(run, "set", run.newResult), run.newResult),
                 map |-> resultCacheSet(m, run.args, run.newResult)]
    ELSE IF env.write = "throw"
           THEN [run |-> Reject(Logged(run, "delete", Undefined), Err("delete")), map |-> m]
           ELSE [run |-> Fulfil(Logged(run, "delete", Undefined), run.newResult),
                 map |-> resultCacheDelete(m, run.args)]

\* A variant that deletes the key's entry when shouldCache throws.
ComputedDeletingOnFailure(opts, m, env, run) ==
  IF ~IsNullish(run.newResult) /\ opts.shouldCache # "absent"
    THEN IF env.admit = "throw"
           THEN [run |-> Reject(Logged(run, "shouldCache", run.newResult), Err("shouldCache")),
                 map |-> resultCacheDelete(m, run.args)]
           ELSE MemoizeStore(opts, m, env, Logged(run, "shouldCache", run.newResult))
    ELSE MemoizeStore(opts, m, env, run)

\* fn has returned newResult: shouldCache is asked about a non-nullish one.
MemoizeComputed(opts, m, env, run) ==
  IF ~IsNullish(run.newResult) /\ opts.shouldCache # "absent"
    THEN IF env.admit = "throw"
           THEN [run |-> Reject(Logged(run, "shouldCache", run.newResult), Err("shouldCache")),
                 map |-> m]
           ELSE MemoizeStore(opts, m, env, Logged(run, "shouldCache", run.newResult))
    ELSE MemoizeStore(opts, m, env, run)

\* A decision that removes the key's entry when fn throws.
DecidedDroppingEntry(opts, m, env, run) ==
  IF MemoizeHit(opts, run.result, run.args) THEN [run |-> Fulfil(run, run.result), map |-> m]
  ELSE IF env.fn.kind = "throw"
    THEN [run |-> Reject(Logged(run, "fn", Undefined), env.fn.v),
          map |-> resultCacheDelete(m, run.args)]
  ELSE MemoizeComputed(opts, m, env, [Logged(run, "fn", Undefined) EXCEPT !.newResult = env.fn.v])

\* A decision that removes the key's entry when it returns the cached result.
DecidedDeletingHit(opts, m, env, run) ==
  IF MemoizeHit(opts, run.result, run.args)
    THEN [run |-> Fulfil(run, run.result), map |-> resultCacheDelete(m, run.args)]
  ELSE IF env.fn.kind = "throw"
    THEN [run |-> Reject(Logged(run, "fn", Undefined), env.fn.v), map |-> m]
  ELSE MemoizeComputed(opts, m, env, [Logged(run, "fn", Undefined) EXCEPT !.newResult = env.fn.v])

\* The cached result is returned, or fn(...args) is called.
MemoizeDecided(opts, m, env, run) ==
  IF MemoizeHit(opts, run.result, run.args) THEN [run |-> Fulfil(run, run.result), map |-> m]
  ELSE IF env.fn.kind = "throw"
    THEN [run |-> Reject(Logged(run, "fn", Undefined), env.fn.v), map |-> m]
  ELSE MemoizeComputed(opts, m, env, [Logged(run, "fn", Undefined) EXCEPT !.newResult = env.fn.v])

\* A variant that asks a given shouldRecalculate about any cached value.
FoundAskingAlways(opts, m, env, run) ==
  IF opts.shouldRecalculate # "absent"
    THEN IF env.recalc = "throw"
           THEN [run |-> Reject(Logged(run, "shouldRecalculate", run.result),
                                Err("shouldRecalculate")),
                 map |-> m]
           ELSE MemoizeDecided(opts, m, env, Logged(run, "shouldRecalculate", run.result))
    ELSE MemoizeDecided(opts, m, env, run)

\* cache.get has returned result: shouldRecalculate is asked about a non-nullish one.
MemoizeFound(opts, m, env, run) ==
  IF ~IsNullish(run.result) /\ opts.shouldRecalculate # "absent"
    THEN IF env.recalc = "throw"
           THEN [run |-> Reject(Logged(run, "shouldRecalculate", run.result),
                                Err("shouldRecalculate")),
                 map |-> m]
           ELSE MemoizeDecided(opts, m, env, Logged(run, "shouldRecalculate", run.result))
    ELSE MemoizeDecided(opts, m, env, run)

\* One call of the wrapper memoize returns, on cache m: the finished run and
\* the cache after it.
memoize(opts, m, args, env) ==
  IF env.get = "throw" \/ ReadFails(m, args)
    THEN [run |-> Reject(Logged(NewRun(args), "get", Undefined), Err("get")), map |-> m]
    ELSE MemoizeFound(opts, m, env,
                      [Logged(NewRun(args), "get", Undefined)
                         EXCEPT !.result = CacheRead(m, args, env.get)])

\* env makes a choice only for the operations the run performed.
ChoosesOnly(env, run) ==
  /\ "shouldRecalculate" \notin Performed(run) => env.recalc = "ok"
  /\ "fn" \notin Performed(run) => env.fn = [kind |-> "return", v |-> Undefined]
  /\ "shouldCache" \notin Performed(run) => env.admit = "ok"
  /\ Performed(run) \cap {"set", "delete"} = {} => env.write = "ok"

\* The wrapper has returned or thrown.
Returned(env, done) ==
  /\ ChoosesOnly(env, done.run)
  /\ map' = done.map
  /\ last' = [ev |-> "settle", run |-> done.run]
  /\ latest' = Finished(done.run)

\* A call of the wrapper that memoize returned.
MemoizeCall(args) ==
  /\ options.wrapper = "memoize"
  /\ ncalls < MaxCalls
  /\ \E env \in MemoizeEnvs(options) : Returned(env, memoize(options, map, args, env))
  /\ ncalls' = ncalls + 1
  /\ UNCHANGED <<options, promiseMap, tasks, history>>

\* The wrapper memoize alone, under arbitrary calls.
InitSync == Init /\ options.wrapper = "memoize"

NextSync == \E args \in CallArgs : MemoizeCall(args)

SpecSync == InitSync /\ [][NextSync]_vars

\* ------------------------------------------------------- memoizeAsync
\* The run waits for x: a value v the awaited operation yields, or its rejection.
Await(run, pc, ok, v) == [run EXCEPT !.pc = pc, !.awaited = [ok |-> ok, v |-> v]]

\* cache.get(args) is called and awaited.
InvokeGet(run, m, mode) ==
  LET r == Logged(run, "get", Undefined)
  IN CASE mode = "throw" \/ ReadFails(m, run.args) -> Reject(r, Err("get"))
       [] mode = "reject" -> Await(r, "get", FALSE, Err("get"))
       [] OTHER -> Await(r, "get", TRUE, CacheRead(m, run.args, mode))

\* options?.shouldRecalculate?.(result, ...args) is called and awaited; an
\* absent policy makes the awaited value undefined.
InvokeShouldRecalculate(opts, run, mode) ==
  IF opts.shouldRecalculate = "absent" THEN Await(run, "shouldRecalculate", TRUE, Undefined)
  ELSE LET r == Logged(run, "shouldRecalculate", run.result)
       IN CASE mode = "throw" -> Reject(r, Err("shouldRecalculate"))
            [] mode = "reject" -> Await(r, "shouldRecalculate", FALSE, Err("shouldRecalculate"))
            [] OTHER -> Await(r, "shouldRecalculate", TRUE,
                              Bool(ShouldRecalculate(run.result, run.args)))

\* A call of fn whose synchronous throw is lost: the run ends without error.
InvokeFnLosingThrow(run, out) ==
  IF out.kind = "throw" THEN Fulfil(Logged(run, "fn", Undefined), Undefined)
  ELSE Await(Logged(run, "fn", Undefined), "fn", out.kind # "reject", out.v)

\* fn(...args) is called and awaited.
InvokeFn(run, out) ==
  LET r == Logged(run, "fn", Undefined)
  IN CASE out.kind = "throw" -> Reject(r, out.v)
       [] out.kind = "reject" -> Await(r, "fn", FALSE, out.v)
       [] OTHER -> Await(r, "fn", TRUE, out.v)

\* options?.shouldCache?.(newResult, ...args) is called and awaited.
InvokeShouldCache(opts, run, mode) ==
  IF opts.shouldCache = "absent" THEN Await(run, "shouldCache", TRUE, Undefined)
  ELSE LET r == Logged(run, "shouldCache", run.newResult)
       IN CASE mode = "throw" -> Reject(r, Err("shouldCache"))
            [] mode = "reject" -> Await(r, "shouldCache", FALSE, Err("shouldCache"))
            [] OTHER -> Await(r, "shouldCache", TRUE,
                              Bool(ShouldCache(run.newResult, run.args)))

\* A write that is logged and awaited but does not reach the result cache.
InvokeWriteLost(run, m, name, mode) ==
  [run |-> Await(Logged(run, name, IF name = "set" THEN run.newResult ELSE Undefined),
                 "write", TRUE, Undefined),
   map |-> m]

\* cache.set(args, newResult), or cache.delete(args), is called and awaited:
\* the run and the result cache after the call.
InvokeWrite(run, m, name, mode) ==
  LET r == Logged(run, name, IF name = "set" THEN run.newResult ELSE Undefined)
  IN CASE mode = "throw" -> [run |-> Reject(r, Err(name)), map |-> m]
       [] mode = "reject" -> [run |-> Await(r, "write", FALSE, Err(name)), map |-> m]
       [] OTHER ->
            [run |-> Await(r, "write", TRUE, Undefined),
             map |-> IF name = "set" THEN resultCacheSet(m, run.args, run.newResult)
                     ELSE resultCacheDelete(m, run.args)]

\* The async function returns or throws after its first await: the finally
\* block deletes the promise-cache entry and the promise settles; otherwise
\* the run goes on waiting.
Commit(id, run, m) ==
  /\ map' = m
  /\ IF run.pc = "done"
       THEN /\ promiseMap' = memoryCacheDelete(promiseMap, run.args)
            /\ tasks' = [i \in DOMAIN tasks \ {id} |-> tasks[i]]
            /\ latest' = Finished(run)
            /\ last' = [ev |-> "settle", run |-> run]
       ELSE /\ tasks' = [tasks EXCEPT ![id] = run]
            /\ last' = NoEvent
            /\ UNCHANGED <<promiseMap, latest>>
  /\ UNCHANGED <<options, ncalls, history>>

\* The promise cache holds the promise of these arguments: it is returned.
CallShared(args, found) ==
  /\ tasks' = [tasks EXCEPT ![found.id].sharers = @ + 1]
  /\ last' = [ev |-> "call", args |-> args, promise |-> found.id, fresh |-> FALSE,
              state |-> tasks[found.id].state]
  /\ UNCHANGED <<map, promiseMap, latest>>

\* The async function has run up to its first await, or to its end when
\* cache.get threw (its finally block has then run); memoize stores the
\* promise it returned in the promise cache.
CallStarted(args, id, run) ==
  /\ tasks' = [i \in DOMAIN tasks \cup {id} |-> IF i = id THEN run ELSE tasks[i]]
  /\ promiseMap' =
       IF MemoizeAdmit([shouldCache |-> "absent"], PromiseV(id), args)
         THEN memoryCacheSet(IF run.pc = "done" THEN memoryCacheDelete(promiseMap, args)
                             ELSE promiseMap,
                             args, PromiseV(id))
         ELSE memoryCacheDelete(promiseMap, args)
  /\ latest' = IF run.pc = "done" THEN Finished(run) ELSE latest
  /\ last' = [ev |-> "call", args |-> args, promise |-> id, fresh |-> TRUE, state |-> run.state]
  /\ UNCHANGED map

\* A call of the wrapper that memoizeAsync returned: memoize over the promise
\* cache, with the async function as the wrapped function.
CallFound(args, found) ==
  IF MemoizeHit([shouldRecalculate |-> "absent"], found, args) THEN CallShared(args, found)
  ELSE \E mode \in GetModes(options) :
         CallStarted(args, ncalls + 1, InvokeGet(NewRun(args), map, mode))

Call(args) ==
  /\ options.wrapper = "memoizeAsync"
  /\ ncalls < MaxCalls
  /\ ncalls' = ncalls + 1
  /\ CallFound(args, memoryCacheGet(promiseMap, args))
  /\ UNCHANGED <<options, history>>

\* await cache.get(args) returns or throws.
ResumeGet(id) ==
  LET run == tasks[id]
  IN /\ run.pc = "get"
     /\ IF ~run.awaited.ok THEN Commit(id, Reject(run, run.awaited.v), map)
        ELSE LET r == [run EXCEPT !.result = run.awaited.v]
             IN IF ~IsNullish(r.result)
                  THEN \E mode \in PolicyModes(options) :
                         Commit(id, InvokeShouldRecalculate(options, r, mode), map)
                  ELSE \E out \in FnOutcomes("memoizeAsync") : Commit(id, InvokeFn(r, out), map)

\* await options?.shouldRecalculate?.(result, ...args) returns or throws.
ResumeShouldRecalculate(id) ==
  LET run == tasks[id]
  IN /\ run.pc = "shouldRecalculate"
     /\ IF ~run.awaited.ok THEN Commit(id, Reject(run, run.awaited.v), map)
        ELSE IF run.awaited.v # Bool(TRUE) THEN Commit(id, Fulfil(run, run.result), map)
        ELSE \E out \in FnOutcomes("memoizeAsync") : Commit(id, InvokeFn(run, out), map)

\* await fn(...args) returns or throws.
ResumeFn(id) ==
  LET run == tasks[id]
  IN /\ run.pc = "fn"
     /\ IF ~run.awaited.ok THEN Commit(id, Reject(run, run.awaited.v), map)
        ELSE LET r == [run EXCEPT !.newResult = run.awaited.v]
             IN IF ~IsNullish(r.newResult)
                  THEN \E mode \in PolicyModes(options) :
                         Commit(id, InvokeShouldCache(options, r, mode), map)
                  ELSE \E mode \in CacheModes(options) :
                         LET w == InvokeWrite(r, map, "delete", mode)
                         IN Commit(id, w.run, w.map)

\* An admission that disregards what shouldCache answered.
AdmittedAlways(awaited) == TRUE

\* (await options?.shouldCache?.(newResult, ...args)) ?? true
Admitted(awaited) == IF IsNullish(awaited) THEN TRUE ELSE awaited.b

\* await options?.shouldCache?.(newResult, ...args) returns or throws.
ResumeShouldCache(id) ==
  LET run == tasks[id]
  IN /\ run.pc = "shouldCache"
     /\ IF ~run.awaited.ok THEN Commit(id, Reject(run, run.awaited.v), map)
        ELSE \E mode \in CacheModes(options) :
               LET w == InvokeWrite(run, map,
                                    IF Admitted(run.awaited.v) THEN "set" ELSE "delete", mode)
               IN Commit(id, w.run, w.map)

\* await cache.set(args, newResult) / cache.delete(args) returns or throws.
ResumeWrite(id) ==
  LET run == tasks[id]
  IN /\ run.pc = "write"
     /\ IF ~run.awaited.ok THEN Commit(id, Reject(run, run.awaited.v), map)
        ELSE Commit(id, Fulfil(run, run.newResult), map)

Next ==
  \/ \E args \in CallArgs : MemoizeCall(args)
  \/ \E args \in CallArgs : Call(args)
  \/ \E id \in DOMAIN tasks : ResumeGet(id)
  \/ \E id \in DOMAIN tasks : ResumeShouldRecalculate(id)
  \/ \E id \in DOMAIN tasks : ResumeFn(id)
  \/ \E id \in DOMAIN tasks : ResumeShouldCache(id)
  \/ \E id \in DOMAIN tasks : ResumeWrite(id)

Spec == Init /\ [][Next]_vars

\* Both wrappers over a backend that reports a missing entry as null or as
\* undefined.
InitMiss ==
  /\ options \in [wrapper : {"memoize", "memoizeAsync"}, cache : {"nullMiss"},
                   shouldRecalculate : {"absent", "zeroArgument"},
                   shouldCache : {"absent", "lengthAtLeast3"}]
  /\ map = <<>>
  /\ promiseMap = <<>>
  /\ tasks = <<>>
  /\ ncalls = 0
  /\ latest = <<>>
  /\ last = NoEvent
  /\ history = <<>>

SpecMiss == InitMiss /\ [][Next]_vars

\* Both wrappers over memoryCache({ keyNormalizer: ([key]) => String(key) }),
\* memoizeAsync with the default promise cache.
InitStringKeys ==
  /\ options \in [wrapper : {"memoize", "memoizeAsync"}, cache : {"stringKeys"},
                   shouldRecalculate : {"absent", "zeroArgument"},
                   shouldCache : {"absent", "lengthAtLeast3"}]
  /\ map = <<>>
  /\ promiseMap = <<>>
  /\ tasks = <<>>
  /\ ncalls = 0
  /\ latest = <<>>
  /\ last = NoEvent
  /\ history = <<>>

SpecStringKeys == InitStringKeys /\ [][Next]_vars

\* ------------------------------------------------------- calls over many kinds of argument
\* A deterministic wrapped function with results that are not nullish and
\* that differ whenever the argument tuples differ: (...args) => args.
Fn(args) == Arr(args)

\* memoize(Fn) with the default options: memoryCache(), no policies.
InitKeys ==
  /\ options = [wrapper |-> "memoize", cache |-> "memoryCache",
                shouldRecalculate |-> "absent", shouldCache |-> "absent"]
  /\ map = <<>>
  /\ promiseMap = <<>>
  /\ tasks = <<>>
  /\ ncalls = 0
  /\ latest = <<>>
  /\ last = NoEvent
  /\ history = <<>>

\* The wrapper has returned from a call over Fn.
KeyReturned(args, done) ==
  /\ map' = done.map
  /\ last' = [ev |-> "settle", run |-> done.run]
  /\ latest' = Finished(done.run)
  /\ history' = Append(history, [args |-> args, invoked |-> "fn" \in Performed(done.run),
                                 value |-> done.run.value])

\* A call of the wrapper memoize returned over Fn.
KeyCall(args) ==
  /\ ncalls < MaxCalls
  /\ KeyReturned(args, memoize(options, map, args,
                               [get |-> "ok", recalc |-> "ok",
                                fn |-> [kind |-> "return", v |-> Fn(args)],
                                admit |-> "ok", write |-> "ok"]))
  /\ ncalls' = ncalls + 1
  /\ UNCHANGED <<options, promiseMap, tasks>>

NextKeys == \E args \in KeyArgs \cup PlainArgs : KeyCall(args)

SpecKeys == InitKeys /\ [][NextKeys]_vars

\* memoize(Fn) with the default options, called with Maps and Sets.
NextCollections == \E args \in CollectionArgs : KeyCall(args)

SpecCollections == InitKeys /\ [][NextCollections]_vars

\* memoize(Fn) over memoryCache({ keyNormalizer: ([key]) => String(key) }),
\* no policies.
InitCustomKeys ==
  /\ options = [wrapper |-> "memoize", cache |-> "stringKeys",
                shouldRecalculate |-> "absent", shouldCache |-> "absent"]
  /\ map = <<>>
  /\ promiseMap = <<>>
  /\ tasks = <<>>
  /\ ncalls = 0
  /\ latest = <<>>
  /\ last = NoEvent
  /\ history = <<>>

NextCustomKeys == \E args \in CustomKeyArgs : KeyCall(args)

SpecCustomKeys == InitCustomKeys /\ [][NextCustomKeys]_vars

\* The falsy values that are not nullish.
FalsyResults == {Num(0), Bool(FALSE), Str(<<>>)}

\* memoize over the default memoryCache or over the backend that always
\* returns 0, with or without shouldRecalculate, and a wrapped function that
\* returns falsy values, undefined or 1.
InitFalsy ==
  /\ options \in [wrapper : {"memoize"}, cache : {"memoryCache", "alwaysZero"},
                   shouldRecalculate : {"absent", "zeroArgument"},
                   shouldCache : {"absent"}]
  /\ map = <<>>
  /\ promiseMap = <<>>
  /\ tasks = <<>>
  /\ ncalls = 0
  /\ latest = <<>>
  /\ last = NoEvent
  /\ history = <<>>

\* A call of the wrapper in which fn, if called, returns newResult.
FalsyCall(args, newResult) ==
  /\ ncalls < MaxCalls
  /\ Returned([get |-> "ok", recalc |-> "ok", fn |-> [kind |-> "return", v |-> newResult],
               admit |-> "ok", write |-> "ok"],
              memoize(options, map, args,
                      [get |-> "ok", recalc |-> "ok",
                       fn |-> [kind |-> "return", v |-> newResult],
                       admit |-> "ok", write |-> "ok"]))
  /\ ncalls' = ncalls + 1
  /\ UNCHANGED <<options, promiseMap, tasks, history>>

NextFalsy ==
  \E args \in Args, newResult \in FalsyResults \cup {Undefined, Num(1)} :
    FalsyCall(args, newResult)

SpecFalsy == InitFalsy /\ [][NextFalsy]_vars

\* memoize(Fn) with the default options, called with object literals and
\* arrays written in several orders.
NextOrder == \E args \in OrderArgs : KeyCall(args)

SpecOrder == InitKeys /\ [][NextOrder]_vars

\* memoize(Fn) with the default options, called with values JSON.stringify
\* has no text for, and with null.
NextUnsupported == \E args \in UnsupportedArgs : KeyCall(args)

SpecUnsupported == InitKeys /\ [][NextUnsupported]_vars

\* memoize(StorageFn) over domStorageCache(storage, keyPrefix) with the
\* default key normalizer and value serializer, no policies.
InitStorage ==
  /\ options = [wrapper |-> "memoize", cache |-> "domStorage",
                shouldRecalculate |-> "absent", shouldCache |-> "absent"]
  /\ map = <<>>
  /\ promiseMap = <<>>
  /\ tasks = <<>>
  /\ ncalls = 0
  /\ latest = <<>>
  /\ last = NoEvent
  /\ history = <<>>

\* A call of the wrapper memoize returned over StorageFn.
StorageCall(args) ==
  /\ ncalls < MaxCalls
  /\ KeyReturned(args, memoize(options, map, args,
                               [get |-> "ok", recalc |-> "ok",
                                fn |-> [kind |-> "return", v |-> StorageFn(args)],
                                admit |-> "ok", write |-> "ok"]))
  /\ ncalls' = ncalls + 1
  /\ UNCHANGED <<options, promiseMap, tasks>>

NextStorage == \E args \in StorageArgs : StorageCall(args)

SpecStorage == InitStorage /\ [][NextStorage]_vars

\* ------------------------------------------------------- denoKvCache
\* denoKvCache(db, keyPrefix, options) used on its own. The store maps a key
\* (a tuple of key parts) to the value set and the options db.set was given;
\* an entry set with an expiry may be removed by the store at any time.
KvPrefix == <<Str(<<"a", "s", "y", "n", "c">>)>>
KvKeys == {<<Num(1)>>, <<Num(2), Num(3)>>}
KvValues == {Num(0), Num(5), Str(<<"a">>)}

\* options.expireIn: left out, null, a number of milliseconds, or the
\* function (result, a) => result === 0 ? undefined : a.
ExpireInOptions ==
  {[kind |-> "absent"], [kind |-> "null"], [kind |-> "number", n |-> 0],
   [kind |-> "number", n |-> 60], [kind |-> "function"]}

InitKv ==
  /\ options \in [wrapper : {"memoizeAsync"}, cache : {"denoKv"},
                   shouldRecalculate : {"absent"}, shouldCache : {"absent"},
                   expireIn : ExpireInOptions]
  /\ map = <<>>
  /\ promiseMap = <<>>
  /\ tasks = <<>>
  /\ ncalls = 0
  /\ latest = <<>>
  /\ last = NoEvent
  /\ history = <<>>

\* [...keyPrefix, ...key]
KvKey(key) == KvPrefix \o key

\* db.get(key): the entry, with versionstamp null when there is none.
dbGet(store, k) ==
  IF k \in DOMAIN store THEN [value |-> store[k].value, versionstamp |-> Str(<<"1">>)]
  ELSE [value |-> Null, versionstamp |-> Null]

\* typeof options?.expireIn === "function" ? options.expireIn(value, ...key)
\*                                          : options?.expireIn ?? undefined
ExpireIn(opts, value, key) ==
  CASE opts.expireIn.kind = "function" -> IF value = Num(0) THEN Undefined ELSE key[1]
    [] opts.expireIn.kind = "number" -> Num(opts.expireIn.n)
    [] OTHER -> Undefined

\* Options that carry the expiry only when it is truthy.
SetOptionsIfTruthy(expireIn) ==
  IF IsNullish(expireIn) \/ expireIn = Num(0) THEN Undefined ELSE [expireIn |-> expireIn]

\* expireIn != null ? { expireIn } : undefined
SetOptions(expireIn) == IF IsNullish(expireIn) THEN Undefined ELSE [expireIn |-> expireIn]

denoKvCacheGet(store, key) ==
  IF dbGet(store, KvKey(key)).versionstamp = Null THEN Undefined
  ELSE dbGet(store, KvKey(key)).value

denoKvCacheSet(store, key, value) ==
  MapSet(store, KvKey(key),
         [value |-> value, options |-> SetOptions(ExpireIn(options, value, key))])

denoKvCacheDelete(store, key) == MapDelete(store, KvKey(key))


\* memoryCache() used on its own: get, set and delete called directly, with
\* the argument tuples of Args as keys and a number and two objects as values.
CacheValues == {Num(0), Ref(1), Ref(2)}

InitCache == InitKeys

\* One more operation on the cache; nothing but the Map is touched.
CacheOperation ==
  /\ ncalls < MaxCalls
  /\ ncalls' = ncalls + 1
  /\ UNCHANGED <<options, promiseMap, tasks, latest, history>>

CacheGet(key) ==
  /\ CacheOperation
  /\ last' = [ev |-> "get", key |-> key, value |-> memoryCacheGet(map, key), before |-> map]
  /\ UNCHANGED map

CacheSet(key, value) ==
  /\ CacheOperation
  /\ map' = memoryCacheSet(map, key, value)
  /\ last' = [ev |-> "set", key |-> key, value |-> value, before |-> map]

CacheDelete(key) ==
  /\ CacheOperation
  /\ map' = memoryCacheDelete(map, key)
  /\ last' = [ev |-> "delete", key |-> key, value |-> Undefined, before |-> map]

NextCache ==
  \/ \E key \in Args : CacheGet(key)
  \/ \E key \in Args, value \in CacheValues : CacheSet(key, value)
  \/ \E key \in Args : CacheDelete(key)

SpecCache == InitCache /\ [][NextCache]_vars

\* domStorageCache(storage, keyPrefix) used on its own: get, set and delete
\* called directly, with two argument tuples as keys and a bigint, a Map, a
\* nested array and a Date as values.
DomKeys == {<<Num(1)>>, <<Num(2)>>}
DomValues == {StorageResults[1], StorageResults[4], StorageResults[8], StorageResults[11]}

DomGet(key) ==
  /\ CacheOperation
  /\ last' = [ev |-> "get", key |-> key, value |-> domStorageCacheGet(map, key), before |-> map]
  /\ UNCHANGED map

DomSet(key, value) ==
  /\ CacheOperation
  /\ map' = domStorageCacheSet(map, key, value)
  /\ last' = [ev |-> "set", key |-> key, value |-> value, before |-> map]

DomDelete(key) ==
  /\ CacheOperation
  /\ map' = domStorageCacheDelete(map, key)
  /\ last' = [ev |-> "delete", key |-> key, value |-> Undefined, before |-> map]

NextDom ==
  \/ \E key \in DomKeys : DomGet(key)
  \/ \E key \in DomKeys, value \in DomValues : DomSet(key, value)
  \/ \E key \in DomKeys : DomDelete(key)

SpecDom == InitStorage /\ [][NextDom]_vars

\* denoKvCache's operations called directly, and the store's expiry.
KvGet(key) ==
  /\ CacheOperation
  /\ last' = [ev |-> "get", key |-> key, value |-> denoKvCacheGet(map, key), before |-> map]
  /\ UNCHANGED map

KvSet(key, value) ==
  /\ CacheOperation
  /\ map' = denoKvCacheSet(map, key, value)
  /\ last' = [ev |-> "set", key |-> key, value |-> value, before |-> map]

KvDelete(key) ==
  /\ CacheOperation
  /\ map' = denoKvCacheDelete(map, key)
  /\ last' = [ev |-> "delete", key |-> key, value |-> Undefined, before |-> map]

\* The store drops an entry whose expiry has passed.
KvExpire(k) ==
  /\ k \in DOMAIN map
  /\ map[k].options # Undefined
  /\ map' = MapDelete(map, k)
  /\ last' = [ev |-> "expire", key |-> k, value |-> Undefined, before |-> map]
  /\ UNCHANGED <<options, promiseMap, tasks, ncalls, latest, history>>

NextKv ==
  \/ \E key \in KvKeys : KvGet(key)
  \/ \E key \in KvKeys, value \in KvValues : KvSet(key, value)
  \/ \E key \in KvKeys : KvDelete(key)
  \/ \E k \in DOMAIN map : KvExpire(k)

SpecKv == InitKv /\ [][NextKv]_vars

\* ------------------------------------------------------- properties
\* The promises that have not settled.
InFlight == {id \in DOMAIN tasks : tasks[id].state = "pending"}

\* The runs the latest step finished: a run that returned or settled, or the
\* run of a call whose async function ended before its first await.
Done ==
  IF last.ev = "settle" THEN {last.run}
  ELSE IF last.ev = "call" /\ last.fresh /\ last.state # "pending" THEN {tasks[last.promise]}
  ELSE {}

\* The runs of the state: those in the promise table and those just finished.
Runs == {tasks[id] : id \in DOMAIN tasks} \cup Done

\* How often a run called fn.
FnCalls(run) == Cardinality({n \in DOMAIN run.log : run.log[n].op = "fn"})

\* C1: memoizeAsync with the default caches. No two unsettled promises have
\* one normalized key; the promise cache maps the key of every unsettled
\* promise to that promise; a call whose key has an unsettled promise is
\* handed that promise and starts no run of its own; a call that does start
\* a run finds no other unsettled promise for its key; and no run calls fn
\* more than once. Hence concurrent calls invoke fn at most once per key.
C1_ConcurrentCallsShareOnePromise ==
  options.wrapper = "memoizeAsync" /\ options.cache = "memoryCache" =>
    /\ \A i, j \in InFlight :
         normalize(tasks[i].args) = normalize(tasks[j].args) => i = j
    /\ \A i \in InFlight : memoryCacheGet(promiseMap, tasks[i].args) = PromiseV(i)
    /\ \A i \in DOMAIN tasks : FnCalls(tasks[i]) <= 1
    /\ last.ev = "call" /\ ~last.fresh =>
         /\ last.promise \in InFlight
         /\ normalize(tasks[last.promise].args) = normalize(last.args)
    /\ last.ev = "call" /\ last.fresh =>
         \A i \in InFlight \ {last.promise} :
           normalize(tasks[i].args) # normalize(last.args)

\* Three concurrent calls over two keys: the third is handed the promise of
\* a call made with another tuple of the same key, and fn was called twice.
C1_ThreeCallsTwoPromises ==
  /\ options.wrapper = "memoizeAsync" /\ options.cache = "memoryCache"
  /\ ncalls = 3
  /\ last.ev = "call" /\ ~last.fresh
  /\ last.args # tasks[last.promise].args
  /\ tasks[last.promise].sharers = 2
  /\ Cardinality(InFlight) = 2
  /\ \A i \in InFlight : FnCalls(tasks[i]) = 1

\* C2: once a promise of memoizeAsync has settled, the promise cache holds
\* no entry for its key: every entry of the promise cache is an unsettled
\* promise.
C2_PromiseCacheHoldsOnlyUnsettled ==
  \A k \in DOMAIN promiseMap : promiseMap[k].id \in InFlight

\* C3: when cache.get fails, the promise of the call rejects with that
\* failure, and no later call is handed a promise that has already settled.
C3_GetFailureIsNotShared ==
  /\ \A run \in Done :
       Ending(run) = "get" => run.state = "rejected" /\ run.value = Err("get")
  /\ last.ev = "call" /\ ~last.fresh => last.state = "pending"

\* C4: every cache.set of every run carries a value that is not nullish and
\* that shouldCache, when supplied, was asked about before and approves for
\* the call's arguments; and the result cache holds only such values.
C4_OnlyAdmittedValuesAreSet ==
  /\ \A run \in Runs : \A n \in DOMAIN run.log :
       run.log[n].op = "set" =>
         /\ ~IsNullish(run.log[n].v)
         /\ run.log[n].key = run.args
         /\ options.shouldCache # "absent" =>
              /\ ShouldCache(run.log[n].v, run.args)
              /\ \E m \in 1..(n - 1) : run.log[m] = Op("shouldCache", run.args, run.log[n].v)
  /\ \A k \in DOMAIN map :
       /\ ~IsNullish(map[k])
       /\ options.shouldCache # "absent" =>
            \E args \in Args : normalize(args) = k /\ ShouldCache(map[k], args)

\* A run stored a result shouldCache approved, after a run of another key
\* whose result shouldCache refused.
C4_StoredAfterRefusal ==
  /\ options.shouldCache # "absent"
  /\ last.ev = "settle"
  /\ Ending(last.run) = "stored"
  /\ memoryCacheGet(map, last.run.args) = last.run.newResult
  /\ \E k \in DOMAIN latest : latest[k] = "notAdmitted"

\* C5: a run in which fn returned null or undefined ends its log with
\* cache.delete for the call's arguments and never calls cache.set; when the
\* delete has succeeded the caller receives that very nullish value and the
\* result cache has no entry for the key; and the next run for the key calls
\* fn again once its cache.get has returned.
C5_NullishResultIsDeleted ==
  \A run \in Done :
    /\ "fn" \in Performed(run) /\ Ending(run) # "fn" /\ IsNullish(run.newResult) =>
         /\ "set" \notin Performed(run)
         /\ run.log[Len(run.log)] = Op("delete", run.args, Undefined)
         /\ Ending(run) \in {"nullish", "delete"}
         /\ Ending(run) = "nullish" =>
              /\ run.state = "fulfilled" /\ run.value = run.newResult
              /\ normalize(run.args) \notin DOMAIN map
    /\ run.after = "nullish" /\ Ending(run) # "get" => "fn" \in Performed(run)

\* A stored result was recalculated, fn returned null, the caller received
\* null, and the entry is gone.
C5_StoredEntryRemovedByNull ==
  /\ last.ev = "settle"
  /\ last.run.after = "stored"
  /\ Ending(last.run) = "nullish"
  /\ last.run.value = Null
  /\ ~IsNullish(last.run.result)
  /\ normalize(last.run.args) \notin DOMAIN map

\* C6: when cache.get returned a value that is not nullish and
\* shouldRecalculate is absent or returned false for it and the arguments,
\* the run returns exactly that value and does not call fn; when
\* shouldRecalculate returned true, the run calls fn and a run that returns
\* a value returns fn's result.
C6_HitReturnsCachedValue ==
  \A run \in Done :
    /\ ~IsNullish(run.result) /\ options.shouldRecalculate # "absent" =>
         run.log[2] = Op("shouldRecalculate", run.args, run.result)
    /\ /\ ~IsNullish(run.result)
       /\ \/ options.shouldRecalculate = "absent"
          \/ ~ShouldRecalculate(run.result, run.args) /\ Ending(run) # "shouldRecalculate"
       => /\ run.state = "fulfilled" /\ run.value = run.result
          /\ Performed(run) \subseteq {"get", "shouldRecalculate"}
    /\ /\ ~IsNullish(run.result)
       /\ options.shouldRecalculate # "absent"
       /\ ShouldRecalculate(run.result, run.args) /\ Ending(run) # "shouldRecalculate"
       => /\ "fn" \in Performed(run)
          /\ run.state = "fulfilled" => run.value = run.newResult

\* shouldRecalculate returned true for a cached value, fn was called and the
\* caller received fn's result, which is not the cached value.
C6_RecalculatedAfresh ==
  /\ last.ev = "settle"
  /\ ~IsNullish(last.run.result)
  /\ "shouldRecalculate" \in Performed(last.run)
  /\ "fn" \in Performed(last.run)
  /\ last.run.state = "fulfilled"
  /\ last.run.value = last.run.newResult
  /\ last.run.value # last.run.result

\* C9: a run in which shouldCache returned false for fn's result ends its
\* log with cache.delete and never calls cache.set; when the delete has
\* succeeded the caller receives the result and the result cache has no
\* entry for the key; the next run for the key calls fn again once its
\* cache.get has returned. A result shouldCache approved is in the result
\* cache when the run has returned it, and with shouldRecalculate absent the
\* next run for the key whose cache.get returns is a hit.
C9_RefusedResultIsNotStored ==
  \A run \in Done :
    /\ /\ "shouldCache" \in Performed(run) /\ Ending(run) # "shouldCache"
       /\ ~ShouldCache(run.newResult, run.args)
       => /\ "set" \notin Performed(run)
          /\ run.log[Len(run.log)] = Op("delete", run.args, Undefined)
          /\ Ending(run) \in {"notAdmitted", "delete"}
          /\ Ending(run) = "notAdmitted" =>
               /\ run.state = "fulfilled" /\ run.value = run.newResult
               /\ normalize(run.args) \notin DOMAIN map
    /\ run.after = "notAdmitted" /\ Ending(run) # "get" => "fn" \in Performed(run)
    /\ /\ "shouldCache" \in Performed(run) /\ Ending(run) = "stored"
       => /\ ShouldCache(run.newResult, run.args)
          /\ run.value = run.newResult
          /\ memoryCacheGet(map, run.args) = run.newResult
    /\ /\ run.after = "stored" /\ options.shouldRecalculate = "absent"
       /\ options.shouldCache # "absent" /\ Ending(run) # "get"
       => Ending(run) = "hit" /\ ShouldCache(run.value, run.args)

\* A stored result was recalculated, shouldCache refused the new result, the
\* caller received it, and the entry is gone.
C9_StoredEntryRemovedByRefusal ==
  /\ last.ev = "settle"
  /\ last.run.after = "stored"
  /\ Ending(last.run) = "notAdmitted"
  /\ last.run.value = Num(0)
  /\ normalize(last.run.args) \notin DOMAIN map

\* C10: in memoizeAsync, a run in which fn threw or rejected never calls
\* cache.set, its promise (one object, whoever holds it) rejects with fn's
\* error, and the promise cache has no entry for its key afterwards; no call
\* is handed a promise that fn's failure rejected; and the next run for the
\* key calls fn again once cache.get and shouldRecalculate have returned.
C10_FailedComputationIsRetried ==
  options.wrapper = "memoizeAsync" =>
    /\ \A run \in Done :
         /\ Ending(run) = "fn" =>
              /\ "set" \notin Performed(run)
              /\ run.state = "rejected" /\ run.value = Err("fn")
              /\ memoryCacheGet(promiseMap, run.args) = Undefined
         /\ run.after = "fn" /\ Ending(run) \notin {"get", "shouldRecalculate"} =>
              "fn" \in Performed(run)
    /\ last.ev = "call" =>
         ~(tasks[last.promise].state = "rejected" /\ tasks[last.promise].value = Err("fn"))

\* After fn failed for a key, two callers share the promise of a new run
\* for it, which called fn again and was rejected by fn again.
C10_SharedRetryRejected ==
  /\ options.wrapper = "memoizeAsync"
  /\ last.ev = "settle"
  /\ last.run.after = "fn"
  /\ Ending(last.run) = "fn"
  /\ last.run.sharers = 2

\* Structural equality: arrays element by element, plain objects property by
\* property in any property order, Maps and Sets in any insertion order,
\* every other value by kind and content.
RECURSIVE Canon(_)
Canon(v) ==
  CASE v.t = "array" -> [t |-> "array", items |-> [i \in DOMAIN v.items |-> Canon(v.items[i])]]
    [] v.t = "object" ->
         [t |-> "object",
          members |-> {<<v.props[i][1], Canon(v.props[i][2])>> : i \in DOMAIN v.props}]
    [] v.t = "map" ->
         [t |-> "map",
          pairs |-> {<<Canon(v.entries[i][1]), Canon(v.entries[i][2])>> : i \in DOMAIN v.entries}]
    [] v.t = "set" -> [t |-> "set", contents |-> {Canon(v.elems[i]) : i \in DOMAIN v.elems}]
    [] OTHER -> v

StructurallyEqual(v, w) == Canon(v) = Canon(w)

\* C7: over calls with tuples of primitives, plain objects, arrays and Dates
\* to memoize(Fn) with the default options, every call returns a value
\* structurally equal to Fn of its arguments, and no two calls with
\* structurally equal tuples both invoke Fn.
C7_OncePerStructuralClass ==
  (\A i \in DOMAIN history : history[i].args \in PlainArgs) =>
    /\ \A i \in DOMAIN history :
         StructurallyEqual(history[i].value, Fn(history[i].args))
    /\ \A i, j \in DOMAIN history :
         i < j /\ history[i].invoked /\ history[j].invoked =>
           ~StructurallyEqual(Arr(history[i].args), Arr(history[j].args))

\* C8: over calls with tuples of numbers, strings, booleans, bigints, byte
\* buffers, arrays, plain objects, Maps, Sets, Dates and RegExps, two tuples
\* that are not structurally equal have different normalized keys, and the
\* later call does not return the result of the earlier one.
C8_DifferentTuplesDifferentKeys ==
  (\A i \in DOMAIN history : history[i].args \in KeyArgs) =>
    \A i, j \in DOMAIN history :
      i < j /\ ~StructurallyEqual(Arr(history[i].args), Arr(history[j].args)) =>
        /\ normalize(history[i].args) # normalize(history[j].args)
        /\ ~StructurallyEqual(history[j].value, Fn(history[i].args))

\* A run whose last operation was the call of fn, which failed.
FnFailed(run) ==
  /\ run.state = "rejected"
  /\ run.log # <<>>
  /\ run.log[Len(run.log)].op = "fn"

\* A call of memoize in which fn threw: the caller gets fn's error, neither
\* cache.set nor cache.delete was called and the result cache is as before,
\* so the entries of other keys are still there; and a call that follows a
\* throw of fn for its key calls fn again once cache.get and
\* shouldRecalculate have returned.
ThrowIsNotMemoized ==
  last'.ev = "settle" /\ ncalls' = ncalls + 1 =>
    /\ FnFailed(last'.run) =>
         /\ last'.run.value = Err("fn")
         /\ Performed(last'.run) \cap {"set", "delete"} = {}
         /\ map' = map
    /\ last'.run.after = "fn" /\ Ending(last'.run) \notin {"get", "shouldRecalculate"} =>
         "fn" \in Performed(last'.run)

\* C11: in memoize, when fn throws the error is thrown to the caller
\* unchanged, cache.set is not called, the result cache is left as it was
\* (entries of other keys stay hits), and the next call with the same
\* arguments calls fn again.
C11_ThrowIsNotMemoized == [][ThrowIsNotMemoized]_vars

\* fn threw for a key, was called again for it and threw again, while
\* another key has an entry in the result cache.
C11_ThrewTwiceBesideAnEntry ==
  /\ options.wrapper = "memoize"
  /\ last.ev = "settle"
  /\ FnFailed(last.run)
  /\ last.run.after = "fn"
  /\ \E k \in DOMAIN map : k # normalize(last.run.args)

\* The last operation of a run that performed one.
LastOp(run) == run.log[Len(run.log)].op

\* The runs just finished in which fn produced a result and cache.set or
\* cache.delete was then called.
Wrote == {run \in Done : "fn" \in Performed(run) /\ LastOp(run) \in {"set", "delete"}}

\* C12 as the specification states it: a call that reached cache.set or
\* cache.delete returns fn's result, also when that operation failed.
C12_WriteFailureStillReturns ==
  \A run \in Wrote : run.state = "fulfilled" /\ run.value = run.newResult

\* C12, corrected: a call that reached cache.set or cache.delete either
\* returns fn's result, and then the operation has taken effect on the
\* result cache, or fails with the error of that operation (memoize throws
\* it, the promise of memoizeAsync rejects with it) and returns no result.
C12_WriteFailurePropagates ==
  \A run \in Wrote :
    \/ /\ run.state = "fulfilled" /\ run.value = run.newResult
       /\ LastOp(run) = "set" => memoryCacheGet(map, run.args) = run.newResult
       /\ LastOp(run) = "delete" => normalize(run.args) \notin DOMAIN map
    \/ /\ run.state = "rejected" /\ run.value = Err(LastOp(run))

\* fn of memoizeAsync produced a result that is not nullish, cache.set
\* failed, and the promise rejected with the error of cache.set.
C12_SetFailedAfterResult ==
  /\ options.wrapper = "memoizeAsync"
  /\ last.ev = "settle"
  /\ last.run \in Wrote
  /\ ~IsNullish(last.run.newResult)
  /\ last.run.state = "rejected"
  /\ last.run.value = Err("set")

\* A finished run whose last operation was the call of a policy callback,
\* which failed.
PolicyFailed(run) ==
  /\ run.state = "rejected"
  /\ run.log # <<>>
  /\ LastOp(run) \in {"shouldRecalculate", "shouldCache"}

\* A step that finishes a run in which a policy callback failed: the caller
\* gets the callback's error, the run called neither cache.set nor
\* cache.delete, and the step leaves the result cache as it is.
PolicyFailureLeavesCache ==
  \A run \in Done' :
    PolicyFailed(run) =>
      /\ run.value = Err(LastOp(run))
      /\ Performed(run) \cap {"set", "delete"} = {}
      /\ map' = map

\* C13: when shouldRecalculate or shouldCache throws (or, in memoizeAsync,
\* rejects), the call fails with that error and returns no result, calls
\* neither cache.set nor cache.delete, and leaves the result cache as it was.
C13_PolicyFailureLeavesCache == [][PolicyFailureLeavesCache]_vars

\* shouldCache failed in a run that recalculated a stored result: the call
\* failed and the stored result is still in the result cache.
C13_ShouldCacheFailedEntryKept ==
  /\ last.ev = "settle"
  /\ PolicyFailed(last.run)
  /\ LastOp(last.run) = "shouldCache"
  /\ ~IsNullish(last.run.result)
  /\ memoryCacheGet(map, last.run.args) = last.run.result

\* C14: a run whose cache.get returned null and a run whose cache.get
\* returned undefined go the same way, in memoize and in memoizeAsync:
\* shouldRecalculate is not asked, fn is called, and a run that returns a
\* value returns fn's result.
C14_NullAndUndefinedAreMisses ==
  \A run \in Done :
    "get" \in Performed(run) /\ Ending(run) # "get" /\ IsNullish(run.result) =>
      /\ Len(run.log) >= 2 /\ run.log[2].op = "fn"
      /\ "shouldRecalculate" \notin Performed(run)
      /\ run.state = "fulfilled" => run.value = run.newResult

\* cache.get of memoizeAsync returned null for a key whose previous run got
\* undefined from fn, and fn was called again and its result returned.
C14_NullMissRecomputed ==
  /\ options.wrapper = "memoizeAsync"
  /\ last.ev = "settle"
  /\ last.run.result = Null
  /\ last.run.after = "nullish"
  /\ "fn" \in Performed(last.run)
  /\ last.run.state = "fulfilled"
  /\ ~IsNullish(last.run.value)

\* C15: no two unsettled promises of memoizeAsync have arguments with the
\* same result-cache key, so no two pipelines work on one entry of the
\* result cache at a time; here for a result cache with a custom key
\* normalizer and the default promise cache.
C15_OnePipelinePerResultKey ==
  \A i, j \in InFlight :
    resultNormalize(tasks[i].args) = resultNormalize(tasks[j].args) => i = j

\* memoizeAsync where each call is awaited before the next is issued.
InitSequential == Init /\ options.wrapper = "memoizeAsync"

CallAwaited(args) == InFlight = {} /\ Call(args)

NextSequential ==
  \/ \E args \in CallArgs : CallAwaited(args)
  \/ \E id \in DOMAIN tasks : ResumeGet(id)
  \/ \E id \in DOMAIN tasks : ResumeShouldRecalculate(id)
  \/ \E id \in DOMAIN tasks : ResumeFn(id)
  \/ \E id \in DOMAIN tasks : ResumeShouldCache(id)
  \/ \E id \in DOMAIN tasks : ResumeWrite(id)

SpecSequential == InitSequential /\ [][NextSequential]_vars

\* The choices the environment made during a finished run of memoizeAsync,
\* as choices for one call of memoize: a rejection is a throw.
EnvOf(run) ==
  [get |-> IF Ending(run) = "get" THEN "throw" ELSE "ok",
   recalc |-> IF Ending(run) = "shouldRecalculate" THEN "throw" ELSE "ok",
   fn |-> IF "fn" \notin Performed(run) THEN [kind |-> "return", v |-> Undefined]
          ELSE IF Ending(run) = "fn" THEN [kind |-> "throw", v |-> run.value]
          ELSE [kind |-> "return", v |-> run.newResult],
   admit |-> IF Ending(run) = "shouldCache" THEN "throw" ELSE "ok",
   write |-> IF Ending(run) \in {"set", "delete"} THEN "throw" ELSE "ok"]

\* memoize called with the arguments of run, on cache m, where cache.get
\* yields what it yielded to run and the environment chooses as it did.
MemoizeTwin(m, run) ==
  IF Ending(run) = "get"
    THEN [run |-> Reject(Logged(NewRun(run.args), "get", Undefined), Err("get")), map |-> m]
    ELSE MemoizeFound(options, m, EnvOf(run),
                      [Logged(NewRun(run.args), "get", Undefined) EXCEPT !.result = run.result])

\* The two runs return or throw the same value after the same operations, fn
\* among them, on the same arguments.
SameOutcome(a, b) == a.state = b.state /\ a.value = b.value /\ a.log = b.log

\* C16: when each call of memoizeAsync is awaited before the next, every call
\* runs the pipeline as a call of memoize does (it is not handed the promise
\* of an earlier call), and the run ends as memoize ends on the same cache
\* contents with the same outcomes of cache.get, the policies, fn and the
\* cache write: the same value returned or thrown, the same invocations of
\* fn, the same result cache afterwards.
C16_SequentialAsyncMatchesMemoize ==
  /\ last.ev = "call" => last.fresh
  /\ \A run \in Done :
       /\ SameOutcome(MemoizeTwin(map, run).run, run)
       /\ MemoizeTwin(map, run).map = map

\* C17: over calls to memoize(Fn) with one Set or one Map of numbers, strings
\* and plain objects, two tuples whose collections hold the same elements or
\* entries, whatever the insertion order, have the same normalized key, and
\* the later call does not invoke Fn.
C17_InsertionOrderIsIgnored ==
  \A i, j \in DOMAIN history :
    i < j /\ StructurallyEqual(Arr(history[i].args), Arr(history[j].args)) =>
      /\ normalize(history[i].args) = normalize(history[j].args)
      /\ ~history[j].invoked

\* Values of the kinds smartValueSerializer tags, and values built from them
\* by nesting in a Set, a plain array, a plain object and a Map (as key and as
\* value), twice over.
RoundTripLeaves ==
  { BigIntV(1), Uint8ArrayV(<<1, 2>>), ArrayBufferV(<<1>>), RegExpV(<<"^", "1", "$">>, <<"g">>),
    URLSearchParamsV(<< <<<<"a">>, <<"2", " ", "&">>>> >>) }

Nested(S) ==
  {SetV(<<x>>) : x \in S} \cup {Arr(<<x>>) : x \in S}
    \cup {Obj(<< <<<<"a">>, x>> >>) : x \in S}
    \cup {MapV(<< <<p[1], p[2]>> >>) : p \in S \X S}

RoundTripValues ==
  RoundTripLeaves \cup Nested(RoundTripLeaves)
    \cup Nested(RoundTripLeaves \cup Nested(RoundTripLeaves))

\* parse(stringify(v)) has the kinds and the contents of v.
RoundTrips == \A v \in RoundTripValues : StructurallyEqual(parse(stringify(v)), v)

\* The arguments whose result is neither a Date nor a URL.
RoundTripArgs == {args \in StorageArgs : StorageFn(args).t \notin {"date", "url"}}

\* C18: parse(stringify(v)) is structurally equal to v, kinds included, for
\* every v built from a bigint, a Uint8Array, an ArrayBuffer, a RegExp and a
\* URLSearchParams by nesting in Maps, Sets, arrays and objects; and every
\* call of a function memoized over domStorageCache whose result is such a
\* value returns a value structurally equal to the function's result, the
\* calls answered from the Storage included.
C18_SerializerRoundTrip ==
  /\ RoundTrips
  /\ \A i \in DOMAIN history :
       history[i].args \in RoundTripArgs =>
         StructurallyEqual(history[i].value, StorageFn(history[i].args))

\* The nested value (a Map of a Set of a bigint, in an object in an array)
\* was stored by one call and read back from the Storage by the next.
C18_NestedValueReadBack ==
  /\ Len(history) = 2
  /\ history[1].args = <<Num(8)>> /\ history[1].invoked
  /\ history[2].args = <<Num(8)>> /\ ~history[2].invoked
  /\ history[2].value.t = "array"
  /\ history[2].value.items[1].props[1][2].t = "map"

\* The string form of a Date (toISOString()) and of a URL (href).
StringForm(value) ==
  IF value.t = "date" THEN Str(ToISOString(value.ms))
  ELSE IF value.t = "url" THEN Str(value.href)
  ELSE value

\* The arguments whose result is a Date or a URL.
StringFormArgs == {args \in StorageArgs : StorageFn(args).t \in {"date", "url"}}

\* C19: stringify of a Date or a URL is the JSON text of a plain string (its
\* string form), and parse of that text is that string. A call of a function
\* memoized over domStorageCache whose result is a Date or a URL returns the
\* Date or URL itself when it invokes the function, and the string when it
\* is answered from the Storage; the Storage holds the quoted string.
C19_DateAndURLComeBackAsStrings ==
  /\ \A args \in StringFormArgs :
       /\ StringForm(StorageFn(args)).t = "string"
       /\ stringify(StorageFn(args)) = QuoteJSONString(StringForm(StorageFn(args)).s)
       /\ parse(stringify(StorageFn(args))) = StringForm(StorageFn(args))
  /\ \A i \in DOMAIN history :
       history[i].args \in StringFormArgs =>
         /\ history[i].value =
              IF history[i].invoked THEN StorageFn(history[i].args)
              ELSE StringForm(StorageFn(history[i].args))
         /\ map[resultNormalize(history[i].args)] =
              QuoteJSONString(StringForm(StorageFn(history[i].args)).s)

\* The Date was computed by one call, which returned the Date, and the next
\* call was answered from the Storage with a string.
C19_DateThenString ==
  /\ Len(history) = 2
  /\ history[1].args = <<Num(11)>> /\ history[1].invoked /\ history[1].value.t = "date"
  /\ history[2].args = <<Num(11)>> /\ ~history[2].invoked /\ history[2].value.t = "string"

\* C20: over calls to memoize(Fn) with undefined, a Symbol, a function or
\* null, two tuples of different values have different normalized keys and
\* the later call invokes Fn; two tuples of the same value have the same key
\* and the later call does not.
C20_UnsupportedValuesKeepApart ==
  \A i, j \in DOMAIN history :
    i < j =>
      IF history[i].args = history[j].args
        THEN normalize(history[i].args) = normalize(history[j].args)
      ELSE /\ normalize(history[i].args) # normalize(history[j].args)
           /\ history[j].invoked

\* C21: every call of the memoizeAsync wrapper is handed a promise, and the
\* call itself runs the async function only up to its first await, on
\* cache.get: fn is not called before the wrapper has returned. A run in
\* which fn was called and was the last operation (fn threw, or its promise
\* rejected) settles its promise as rejected with fn's error; a run that is
\* fulfilled after fn was called resolves with fn's return value.
C21_EveryCallReturnsAPromise ==
  options.wrapper = "memoizeAsync" =>
    /\ last.ev = "call" =>
         /\ last.promise \in DOMAIN tasks
         /\ last.fresh => Performed(tasks[last.promise]) = {"get"}
    /\ \A run \in Done :
         "fn" \in Performed(run) =>
           IF LastOp(run) = "fn" THEN run.state = "rejected" /\ run.value = Err("fn")
           ELSE run.state = "fulfilled" => run.value = run.newResult

\* fn failed in a run of memoizeAsync and the promise of the call, handed
\* out earlier, has settled as rejected with fn's error.
C21_FnThrowRejectedThePromise ==
  /\ options.wrapper = "memoizeAsync"
  /\ last.ev = "settle"
  /\ LastOp(last.run) = "fn"
  /\ last.run.state = "rejected"
  /\ last.run.value = Err("fn")

\* The entries of keys other than key are the same in m and in before.
OtherEntriesKept(m, before, key) ==
  \A k \in (DOMAIN m \cup DOMAIN before) \ {normalize(key)} :
    k \in DOMAIN m /\ k \in DOMAIN before /\ m[k] = before[k]

\* C22: on memoryCache(), get(k) returns the value of the latest set on a
\* tuple with the normalized key of k, the same object and not a copy, or
\* undefined when there was none or a delete came after it; right after
\* set(k, v), get(k) is v; right after delete(k) it is undefined; delete of
\* a key without entry leaves the map as it was; set and delete leave the
\* entry of every other normalized key as it was; get changes nothing.
C22_MemoryCacheContract ==
  /\ last.ev = "set" =>
       /\ memoryCacheGet(map, last.key) = last.value
       /\ OtherEntriesKept(map, last.before, last.key)
  /\ last.ev = "delete" =>
       /\ memoryCacheGet(map, last.key) = Undefined
       /\ normalize(last.key) \notin DOMAIN last.before => map = last.before
       /\ OtherEntriesKept(map, last.before, last.key)
  /\ last.ev = "get" =>
       /\ map = last.before
       /\ last.value = IF normalize(last.key) \in DOMAIN map THEN map[normalize(last.key)]
                       ELSE Undefined

\* An object was set under one tuple, and get with another tuple of the
\* same normalized key returned that object, beside an entry of another key.
C22_SameObjectReadBack ==
  /\ last.ev = "get"
  /\ last.value = Ref(1)
  /\ last.key = <<SetV(<<Num(2), Num(1)>>)>>
  /\ normalize(<<Num(0)>>) \in DOMAIN map

\* String(a) === String(b) for the first arguments of two tuples.
SameString(args, other) == ToStringJS(args[1]) = ToStringJS(other[1])

\* The earlier calls of the history whose tuple has the string of call j.
EarlierSameString(j) == {i \in 1..(j - 1) : SameString(history[i].args, history[j].args)}

\* C23: over calls to memoize(Fn) on memoryCache with the key normalizer
\* ([key]) => String(key), a call invokes Fn exactly when no earlier call had
\* a tuple with the same string; a call that does not invoke Fn returns the
\* result of the first call with that string, whatever the type of its
\* argument was.
C23_SharedExactlyWhenSameString ==
  \A j \in DOMAIN history :
    /\ history[j].invoked <=> EarlierSameString(j) = {}
    /\ ~history[j].invoked =>
         \E i \in EarlierSameString(j) :
           /\ history[i].invoked
           /\ history[j].value = Fn(history[i].args)

\* A call with "1", then a call with 1 that returned the result computed for
\* "1", then a call with 2 that invoked Fn.
C23_NumberAfterItsString ==
  /\ Len(history) = 3
  /\ history[1].args = <<Str(<<"1">>)>> /\ history[1].invoked
  /\ history[2].args = <<Num(1)>> /\ ~history[2].invoked
  /\ history[2].value = Fn(<<Str(<<"1">>)>>)
  /\ history[3].args = <<Num(2)>> /\ history[3].invoked

ForcedAndFailed ==
  {run \in Done : FnFailed(run) /\ "shouldRecalculate" \in Performed(run)}

\* C25: when shouldRecalculate forced a recomputation and fn then threw or
\* rejected, the call fails with fn's error, the run called neither
\* cache.set nor cache.delete, and the entry cache.get had returned for the
\* key is still the key's entry, in memoize and in memoizeAsync.
C25_FailedRecomputationKeepsEntry ==
  \A run \in ForcedAndFailed :
    /\ run.value = Err("fn")
    /\ Performed(run) = {"get", "shouldRecalculate", "fn"}
    /\ ~IsNullish(run.result)
    /\ normalize(run.args) \in DOMAIN map
    /\ memoryCacheGet(map, run.args) = run.result

\* In memoizeAsync the recomputation of a stored string, forced by
\* shouldRecalculate, failed in fn, and the string is still stored.
C25_ForcedRecomputationFailed ==
  /\ ForcedAndFailed # {}
  /\ options.wrapper = "memoizeAsync"
  /\ last.ev = "settle"
  /\ last.run.after = "stored"
  /\ memoryCacheGet(map, last.run.args) = Str(<<"f", "o", "o", "b", "a", "r">>)

\* The finished runs in which shouldRecalculate forced a recomputation, fn
\* returned a result that is not nullish and shouldCache does not refuse,
\* and cache.set did not fail.
ForcedAndStored ==
  {run \in Done :
     /\ "shouldRecalculate" \in Performed(run)
     /\ "fn" \in Performed(run)
     /\ run.state = "fulfilled"
     /\ MemoizeAdmit(options, run.newResult, run.args)}

\* C26: when shouldRecalculate forced a recomputation and fn returned a
\* result that is not nullish and that shouldCache admits, the run ended
\* with cache.set, the key's entry in the result cache is the new result,
\* and the caller gets the new result.
C26_ForcedRecomputationOverwrites ==
  \A run \in ForcedAndStored :
    /\ LastOp(run) = "set"
    /\ "delete" \notin Performed(run)
    /\ memoryCacheGet(map, run.args) = run.newResult
    /\ run.value = run.newResult

\* A stored 0 was recomputed on shouldRecalculate's demand and replaced by
\* the string fn returned, which the caller got.
C26_StaleZeroReplaced ==
  /\ last.ev = "settle"
  /\ last.run \in ForcedAndStored
  /\ last.run.result = Num(0)
  /\ last.run.value = Str(<<"f", "o", "o", "b", "a", "r">>)
  /\ memoryCacheGet(map, last.run.args) = last.run.value

\* A step that finishes a run with a cache hit leaves the result cache as
\* it is, and the run performed neither cache.set nor cache.delete; and a
\* step changes the result cache only by the cache.set or cache.delete that
\* a run of that step has just logged, which a run ending in a hit never has.
HitLeavesCache ==
  /\ \A run \in Done' :
       Ending(run) = "hit" =>
         /\ Performed(run) \subseteq {"get", "shouldRecalculate"}
         /\ ~IsNullish(run.result)
         /\ run.value = run.result
         /\ map' = map
  /\ map' # map =>
       \E run \in Runs' :
         /\ \A i \in DOMAIN tasks : tasks[i] # run
         /\ run.log # <<>>
         /\ LastOp(run) \in {"set", "delete"}
         /\ resultNormalize(run.args) \in
              {k \in DOMAIN map \cup DOMAIN map' :
                 ~(k \in DOMAIN map /\ k \in DOMAIN map' /\ map[k] = map'[k])}

\* C27: a call that returns the cached value (not nullish, no recalculation)
\* performs no cache.set and no cache.delete and leaves the result cache
\* as it was, in memoize and in memoizeAsync.
C27_HitLeavesCache == [][HitLeavesCache]_vars

\* memoizeAsync asked shouldRecalculate about a stored result, was told no,
\* and resolved with the stored result, which is still stored.
C27_AsyncHitAfterPolicy ==
  /\ options.wrapper = "memoizeAsync"
  /\ last.ev = "settle"
  /\ Ending(last.run) = "hit"
  /\ Performed(last.run) = {"get", "shouldRecalculate"}
  /\ memoryCacheGet(map, last.run.args) = last.run.value
  /\ Cardinality(DOMAIN map) = 2

\* The place of an operation in the wrapper's algorithm.
Rank(op) ==
  CASE op = "get" -> 1
    [] op = "shouldRecalculate" -> 2
    [] op = "fn" -> 3
    [] op = "shouldCache" -> 4
    [] op \in {"set", "delete"} -> 5

\* The operations of a log come in the algorithm's order, cache.get first,
\* none of them twice and cache.set and cache.delete not both.
InOrder(log) ==
  /\ log # <<>> => log[1].op = "get"
  /\ \A n \in 1..(Len(log) - 1) : Rank(log[n].op) < Rank(log[n + 1].op)

\* The run of promise id after the step, whether it is still pending or the
\* step has settled it.
RunAfter(id) == IF id \in DOMAIN tasks' THEN tasks'[id] ELSE last'.run

\* After every step: the operations of every run are in order;
\* shouldRecalculate was called only about a cached value that is not
\* nullish and shouldCache only about such a result of fn; a run that called
\* fn with a cached value at hand had asked a given shouldRecalculate, and a
\* run that returned fn's result had asked a given shouldCache about a
\* result that is not nullish and ended with exactly one cache.set or
\* cache.delete. In memoizeAsync a step adds at most one operation to a
\* pending run, and only when what the run awaited has returned.
CallOrder ==
  /\ \A run \in Runs' :
       /\ InOrder(run.log)
       /\ "shouldRecalculate" \in Performed(run) => ~IsNullish(run.result)
       /\ "shouldCache" \in Performed(run) => ~IsNullish(run.newResult)
       /\ "fn" \in Performed(run) /\ ~IsNullish(run.result)
            /\ options.shouldRecalculate # "absent" =>
            "shouldRecalculate" \in Performed(run)
       /\ "fn" \in Performed(run) /\ run.state = "fulfilled" =>
            /\ LastOp(run) \in {"set", "delete"}
            /\ ~IsNullish(run.newResult) /\ options.shouldCache # "absent" =>
                 "shouldCache" \in Performed(run)
  /\ \A id \in DOMAIN tasks :
       /\ Len(RunAfter(id).log) <= Len(tasks[id].log) + 1
       /\ Len(RunAfter(id).log) > Len(tasks[id].log) =>
            /\ tasks[id].awaited.ok
            /\ SubSeq(RunAfter(id).log, 1, Len(tasks[id].log)) = tasks[id].log

\* C28: a call that recomputes and returns performs cache.get, then
\* shouldRecalculate only if the cached value is not nullish, then fn, then
\* shouldCache only if the result is not nullish, then exactly one of
\* cache.set and cache.delete; in memoizeAsync each of them starts only
\* after the one before has settled.
C28_CallOrder == [][CallOrder]_vars

\* A run of memoizeAsync performed all five operations and resolved.
C28_AllFiveOperations ==
  /\ options.wrapper = "memoizeAsync"
  /\ last.ev = "settle"
  /\ last.run.state = "fulfilled"
  /\ [n \in 1..Len(last.run.log) |-> last.run.log[n].op] =
       <<"get", "shouldRecalculate", "fn", "shouldCache", "set">>

\* The calls of a policy callback a run made: the log entries of that name.
PolicyCalls(run, name) == {run.log[n] : n \in {i \in DOMAIN run.log : run.log[i].op = name}}

\* After every step, each run called shouldRecalculate only with the value
\* cache.get returned and the call's arguments, shouldCache only with the
\* value fn returned and the call's arguments, and neither with null or
\* undefined; the value of cache.get is the key's entry before a call of
\* memoize, and in memoizeAsync what the awaited cache.get or fn yielded.
PoliciesGetValues ==
  /\ \A run \in Runs' :
       /\ \A call \in PolicyCalls(run, "shouldRecalculate") :
            call.v = run.result /\ call.key = run.args /\ ~IsNullish(call.v)
       /\ \A call \in PolicyCalls(run, "shouldCache") :
            call.v = run.newResult /\ call.key = run.args /\ ~IsNullish(call.v)
  /\ options.wrapper = "memoize" /\ last'.ev = "settle" /\ ncalls' = ncalls + 1 =>
       \A call \in PolicyCalls(last'.run, "shouldRecalculate") :
         call.v = resultCacheGet(map, last'.run.args)
  /\ \A id \in DOMAIN tasks :
       /\ tasks[id].pc = "get" =>
            \A call \in PolicyCalls(RunAfter(id), "shouldRecalculate") :
              tasks[id].awaited.ok /\ call.v = tasks[id].awaited.v
       /\ tasks[id].pc = "fn" =>
            \A call \in PolicyCalls(RunAfter(id), "shouldCache") :
              tasks[id].awaited.ok /\ call.v = tasks[id].awaited.v

\* C29: shouldRecalculate is called only when cache.get returned a value
\* that is not nullish, with that value and the call's arguments;
\* shouldCache only when fn returned such a value, with that value and the
\* call's arguments; neither is ever called with null or undefined.
C29_PoliciesGetValues == [][PoliciesGetValues]_vars

\* Both policies are given; cache.get returned null, so shouldRecalculate
\* was not asked, and fn returned a string, about which shouldCache was.
C29_NullSkippedThePolicy ==
  /\ options.shouldRecalculate # "absent"
  /\ last.ev = "settle"
  /\ last.run.result = Null
  /\ PolicyCalls(last.run, "shouldRecalculate") = {}
  /\ PolicyCalls(last.run, "shouldCache") =
       {Op("shouldCache", last.run.args, Str(<<"f", "o", "o", "b", "a", "r">>))}

\* C30: 0, false and "" are results like any other. A call whose cache.get
\* returned one of them, with no recalculation asked for, returns it
\* without calling fn; a call in which fn returned one of them ends with
\* cache.set of that value, not with cache.delete, returns it, and the
\* memoryCache then holds it.
C30_FalsyResultsAreOrdinary ==
  \A run \in Done :
    /\ run.result \in FalsyResults
         /\ ~(options.shouldRecalculate # "absent" /\ ShouldRecalculate(run.result, run.args)) =>
         /\ Performed(run) \cap {"fn", "set", "delete"} = {}
         /\ run.state = "fulfilled"
         /\ run.value = run.result
    /\ "fn" \in Performed(run) /\ run.newResult \in FalsyResults =>
         /\ run.log[Len(run.log)] = Op("set", run.args, run.newResult)
         /\ "delete" \notin Performed(run)
         /\ run.state = "fulfilled"
         /\ run.value = run.newResult
         /\ options.cache = "memoryCache" => memoryCacheGet(map, run.args) = run.newResult

\* false was stored for one key and "" for another, and the next call of the
\* first key returned false without calling fn.
C30_StoredFalseIsAHit ==
  /\ options.cache = "memoryCache"
  /\ last.ev = "settle"
  /\ Performed(last.run) \cap {"fn", "set", "delete"} = {}
  /\ last.run.value = Bool(FALSE)
  /\ \E k \in DOMAIN map : map[k] = Str(<<>>)

\* The step of the pending run id: the operation it awaits returns or throws.
Resume(id) ==
  \/ ResumeGet(id)
  \/ ResumeShouldRecalculate(id)
  \/ ResumeFn(id)
  \/ ResumeShouldCache(id)
  \/ ResumeWrite(id)

\* C31: in memoizeAsync every pending run can take its next step whatever
\* the other runs wait for, and a call is handed the promise of a pending
\* run only when its arguments are structurally those of that run: a call
\* with another key starts a run of its own, which can run to its end while
\* the first is suspended.
C31_PipelinesDoNotBlock ==
  options.wrapper = "memoizeAsync" =>
    /\ \A id \in InFlight : ENABLED Resume(id)
    /\ last.ev = "call" /\ last.promise \in DOMAIN tasks =>
         /\ StructurallyEqual(Arr(tasks[last.promise].args), Arr(last.args))
         /\ last.fresh <=> tasks[last.promise].sharers = 1

\* The run of the second call is still suspended at await cache.get, and
\* the run of the third call, for another key that the first call had stored
\* a result for, has performed all five operations and resolved.
C31_LaterCallSettledFirst ==
  /\ options.wrapper = "memoizeAsync"
  /\ ncalls = 3
  /\ last.ev = "settle"
  /\ last.run.state = "fulfilled"
  /\ last.run.after = "stored"
  /\ Performed(last.run) = {"get", "shouldRecalculate", "fn", "shouldCache", "set"}
  /\ \E id \in InFlight \cap {2} :
       /\ tasks[id].pc = "get"
       /\ tasks[id].log = <<Op("get", tasks[id].args, Undefined)>>
       /\ ~StructurallyEqual(Arr(tasks[id].args), Arr(last.run.args))
       /\ tasks[id].after = "none"

\* The keys whose entry differs between two Maps.
Changed(m, n) ==
  {k \in DOMAIN m \cup DOMAIN n : ~(k \in DOMAIN m /\ k \in DOMAIN n /\ m[k] = n[k])}

\* The arguments of the wrapper call that acts in a step: those of the call
\* made, or those of the run that is resumed.
Actor ==
  IF last'.ev = "call" THEN {last'.args}
  ELSE IF options.wrapper = "memoize" THEN {last'.run.args}
  ELSE {tasks[id].args : id \in {i \in DOMAIN tasks : RunAfter(i) # tasks[i]}}

\* A step is taken by the call of one argument tuple; it changes the result
\* cache and the promise cache at most at the key of that tuple, and every
\* cache operation a run has logged has the run's arguments for its key.
KeysOfOthersUntouched ==
  /\ Cardinality(Actor) = 1
  /\ \A args \in Actor :
       /\ Changed(map, map') \subseteq {resultNormalize(args)}
       /\ Changed(promiseMap, promiseMap') \subseteq {normalize(args)}
  /\ \A run \in Runs' : \A n \in DOMAIN run.log : run.log[n].key = run.args

\* C32: a wrapper call with arguments a calls the result cache and the
\* promise cache with a only; under any interleaving of the pipelines of
\* memoizeAsync, the entries of all other normalized keys in both caches
\* are left as they are by the steps of the pipeline for a.
C32_KeysOfOthersUntouched == [][KeysOfOthersUntouched]_vars

\* A run of memoizeAsync has deleted the stored entry of its key while
\* the run of another key, whose entry is stored, is still pending: the
\* other key's entries are in both caches.
C32_DeletedBesideAnotherKey ==
  /\ options.wrapper = "memoizeAsync"
  /\ \E id \in InFlight :
       /\ tasks[id].pc = "write"
       /\ LastOp(tasks[id]) = "delete"
       /\ tasks[id].after = "stored"
       /\ normalize(tasks[id].args) \notin DOMAIN map
       /\ \E other \in InFlight :
            /\ normalize(tasks[other].args) # normalize(tasks[id].args)
            /\ memoryCacheGet(map, tasks[other].args) = tasks[other].newResult
            /\ memoryCacheGet(promiseMap, tasks[other].args) = PromiseV(other)
            /\ ~IsNullish(tasks[other].newResult)

\* memoizeAsync with both policies given, over the default cache and over a
\* caller's backend, where whatever a run awaits eventually returns or
\* throws: every pending run is eventually resumed.
InitLive ==
  /\ Init
  /\ options.wrapper = "memoizeAsync"
  /\ options.shouldRecalculate = "zeroArgument"
  /\ options.shouldCache = "lengthAtLeast3"

NextLive ==
  \/ \E args \in CallArgs : Call(args)
  \/ \E id \in DOMAIN tasks : Resume(id)

SpecLive ==
  /\ InitLive
  /\ [][NextLive]_vars
  /\ \A id \in 1..MaxCalls : WF_vars(id \in DOMAIN tasks /\ Resume(id))

\* The normalized keys the promise cache can hold.
PromiseKeys == {normalize(args) : args \in Args}

\* C33: when every cache operation, policy callback and call of fn
\* eventually returns or settles, every promise of memoizeAsync eventually
\* settles and every entry of the promise cache is eventually removed.
C33_EveryEntryIsEventuallyRemoved ==
  /\ \A id \in 1..MaxCalls : (id \in InFlight) ~> (id \notin DOMAIN tasks)
  /\ \A key \in PromiseKeys : (key \in DOMAIN promiseMap) ~> (key \notin DOMAIN promiseMap)

\* The part of C33 that holds: every pending promise eventually settles,
\* and the promise-cache entry of a promise that was pending is eventually
\* removed.
C33_PendingPromisesSettle ==
  \A id \in 1..MaxCalls :
    (id \in InFlight) ~>
      (id \notin DOMAIN tasks /\ \A key \in DOMAIN promiseMap : promiseMap[key] # PromiseV(id))

\* ------------------------------------------------------- smartValueSerializer alone
\* Values built from plain objects, arrays, strings, numbers, booleans and
\* null, with field names that are not tags of the serializer.
PlainLeaves == {Null, Bool(TRUE), Bool(FALSE), Num(0), Num(0 - 2), Str(<<>>), Str(<<"a">>)}

PlainValues ==
  PlainLeaves
    \cup {Arr(<<x>>) : x \in PlainLeaves}
    \cup {Obj(<< <<<<"a">>, x>> >>) : x \in PlainLeaves}
    \cup { Arr(<<>>), Obj(<<>>),
           Arr(<<Obj(<< <<<<"a">>, Str(<<"a">>)>>, <<<<"b">>, Num(1)>>, <<<<"c">>, Bool(TRUE)>> >>)>>),
           Obj(<< <<<<"b">>, Arr(<<Num(1), Null>>)>>, <<<<"a">>, Obj(<< <<<<"$">>, Num(1)>> >>)>> >>) }

\* Plain objects one of whose field names is a tag of the serializer.
TagNamedValues ==
  { Obj(<< <<DollarBigint, Str(<<"1">>)>> >>),
    Obj(<< <<DollarSet, Arr(<<Num(1)>>)>> >>),
    Obj(<< <<<<"a">>, Num(1)>>, <<DollarMap, Arr(<<>>)>> >>),
    Arr(<<Obj(<< <<DollarUint8array, Arr(<<Num(1)>>)>> >>)>>),
    Obj(<< <<DollarArraybuffer, Arr(<<>>)>> >>),
    Obj(<< <<DollarUrlsearchparams, Str(<<"a", "=", "1">>)>> >>),
    Obj(<< <<DollarRegexp, Obj(<< <<<<"s">>, Str(<<"a">>)>>, <<<<"f">>, Str(<<"g">>)>> >>)>> >>) }

\* Plain objects with two tag-named fields, in either property order.
TwoTagValues ==
  { Obj(<< <<DollarRegexp, Obj(<< <<<<"s">>, Str(<<"a">>)>>, <<<<"f">>, Str(<<"g">>)>> >>)>>,
           <<DollarUrlsearchparams, Str(<<"a", "=", "1">>)>> >>),
    Obj(<< <<DollarUrlsearchparams, Str(<<"a", "=", "1">>)>>,
           <<DollarRegexp, Obj(<< <<<<"s">>, Str(<<"a">>)>>, <<<<"f">>, Str(<<"g">>)>> >>)>> >>),
    Obj(<< <<DollarSet, Arr(<<Num(1)>>)>>, <<DollarBigint, Str(<<"1">>)>> >>),
    Obj(<< <<DollarMap, Arr(<<>>)>>, <<DollarArraybuffer, Arr(<<Num(1)>>)>> >>) }

\* One value of each type the serializer tags, with plain contents.
ExtendedValues ==
  { BigIntV(12), Uint8ArrayV(<<1, 2>>), ArrayBufferV(<<2, 1>>),
    MapV(<< <<Str(<<"b">>), Num(2)>>, <<Str(<<"a">>), Num(1)>> >>),
    SetV(<<Num(2), Num(1)>>),
    RegExpV(<<"a">>, <<"g">>),
    URLSearchParamsV(<< <<<<"a">>, <<"1">>>>, <<<<"b">>, <<"2">>>> >>) }

\* The values the serializer is given.
SerializerValues == PlainValues \cup TagNamedValues \cup TwoTagValues \cup ExtendedValues

InitSerializer == InitKeys

\* text = serializer.stringify(value)
SerializerStringify(value) ==
  /\ ncalls < MaxCalls
  /\ last.ev # "stringify"
  /\ last' = [ev |-> "stringify", value |-> value, text |-> stringify(value)]
  /\ ncalls' = ncalls + 1
  /\ UNCHANGED <<options, map, promiseMap, tasks, latest, history>>

\* serializer.parse(text) of the text last produced.
SerializerParse ==
  /\ last.ev = "stringify"
  /\ last' = [ev |-> "parse", value |-> last.value, text |-> last.text,
              parsed |-> parse(last.text)]
  /\ UNCHANGED <<options, map, promiseMap, tasks, ncalls, latest, history>>

NextSerializer ==
  \/ \E value \in SerializerValues : SerializerStringify(value)
  \/ SerializerParse

SpecSerializer == InitSerializer /\ [][NextSerializer]_vars

\* The names of the types the serializer tags.
TagNames ==
  {DollarBigint, DollarUint8array, DollarArraybuffer, DollarMap, DollarSet,
   DollarUrlsearchparams, DollarRegexp}

\* A value of plain objects and arrays in which no object has a field named
\* as a tag.
RECURSIVE TagFree(_)
TagFree(v) ==
  CASE v.t = "array" -> \A i \in DOMAIN v.items : TagFree(v.items[i])
    [] v.t = "object" ->
         \A i \in DOMAIN v.props : v.props[i][1] \notin TagNames /\ TagFree(v.props[i][2])
    [] OTHER -> TRUE

\* C34: parse(stringify(v)) is structurally equal to v for every v built
\* from plain objects, arrays, strings, numbers, booleans and null, whatever
\* the names of the objects' fields.
C34_PlainValuesRoundTrip ==
  last.ev = "parse" /\ last.value \in PlainValues \cup TagNamedValues =>
    StructurallyEqual(last.parsed, last.value)

\* The part of C34 that holds: the values in which no object has a field
\* named $bigint, $uint8array, $arraybuffer, $map, $set, $urlsearchparams
\* or $regexp come back structurally equal.
C34_TagFreeValuesRoundTrip ==
  last.ev = "parse" /\ last.value \in PlainValues \cup TagNamedValues /\ TagFree(last.value) =>
    StructurallyEqual(last.parsed, last.value)

\* A plain object with the one field $bigint came back as a bigint.
C34_ObjectCameBackAsBigint ==
  /\ last.ev = "parse"
  /\ last.value = Obj(<< <<DollarBigint, Str(<<"1">>)>> >>)
  /\ last.parsed = BigIntV(1)

\* Two different orders of writing the same fields.
Reordered ==
  {p \in InsertionOrders \X InsertionOrders :
     p[1] # p[2] /\ {p[1][i] : i \in DOMAIN p[1]} = {p[2][i] : i \in DOMAIN p[2]}}

\* The calls made with the object literal of these fields.
CallsWith(entries) == {i \in DOMAIN history : history[i].args = <<Literal(entries)>>}

\* C35 as the specification states it: two object arguments with the same
\* fields written in a different order get different normalized keys, so
\* the calls made with them use different cache entries.
C35_InsertionOrderSetsTheKey ==
  \A p \in Reordered :
    \A i \in CallsWith(p[1]), j \in CallsWith(p[2]) :
      i < j =>
        /\ normalize(history[i].args) # normalize(history[j].args)
        /\ \E k \in 1..j : history[k].invoked /\ history[k].args = <<Literal(p[2])>>
        /\ Cardinality(DOMAIN map) >= 2

\* The fields are all named other than by array indices.
NoIndexNames(entries) == \A i \in DOMAIN entries : ~IsIndexName(entries[i][1].s)

\* C35, corrected: the normalizer keeps the property order of plain objects
\* and the positions of arrays. Two calls share a cache entry exactly when
\* their arguments have the same properties in the same property order and
\* the same elements at the same positions; two objects with the same
\* fields written in a different order get different keys when no field is
\* named by an array index, and one key when all fields are, since index
\* properties are enumerated in ascending order however they were written.
C35_PropertyOrderSetsTheKey ==
  /\ \A i, j \in DOMAIN history :
       /\ history[i].args = history[j].args <=>
            normalize(history[i].args) = normalize(history[j].args)
       /\ history[j].invoked <=> \A k \in 1..(j - 1) : history[k].args # history[j].args
  /\ \A p \in Reordered :
       /\ NoIndexNames(p[1]) => normalize(<<Literal(p[1])>>) # normalize(<<Literal(p[2])>>)
       /\ (\A i \in DOMAIN p[1] : IsIndexName(p[1][i][1].s)) =>
            normalize(<<Literal(p[1])>>) = normalize(<<Literal(p[2])>>)
  /\ normalize(<<Arr(<<Num(1), Num(2)>>)>>) # normalize(<<Arr(<<Num(2), Num(1)>>)>>)

\* { a: 1, b: 2 } and then { b: 2, a: 1 } each invoked the function, and
\* { a: 1, b: 2 } again did not.
C35_ReorderedObjectMissed ==
  /\ Len(history) = 3
  /\ history[1].args = <<Literal(<< <<Str(<<"a">>), Num(1)>>, <<Str(<<"b">>), Num(2)>> >>)>>
  /\ history[2].args = <<Literal(<< <<Str(<<"b">>), Num(2)>>, <<Str(<<"a">>), Num(1)>> >>)>>
  /\ history[3].args = history[1].args
  /\ history[1].invoked /\ history[2].invoked /\ ~history[3].invoked
  /\ Cardinality(DOMAIN map) = 2

\* The tagged object the specification describes for a value of an extended
\* type: one field, named after the type.
Encoded(v) ==
  CASE v.t = "bigint" -> Obj(<< <<DollarBigint, Str(NumberToString(v.big))>> >>)
    [] v.t = "uint8array" ->
         Obj(<< <<DollarUint8array, Arr([i \in DOMAIN v.bytes |-> Num(v.bytes[i])])>> >>)
    [] v.t = "arraybuffer" ->
         Obj(<< <<DollarArraybuffer, Arr([i \in DOMAIN v.buf |-> Num(v.buf[i])])>> >>)
    [] v.t = "map" ->
         Obj(<< <<DollarMap, Arr([i \in DOMAIN v.entries |-> Arr(v.entries[i])])>> >>)
    [] v.t = "set" -> Obj(<< <<DollarSet, Arr(v.elems)>> >>)
    [] v.t = "regexp" ->
         Obj(<< <<DollarRegexp,
                  Obj(<< <<<<"s">>, Str(v.source)>>, <<<<"f">>, Str(v.flags)>> >>)>> >>)
    [] v.t = "urlsearchparams" ->
         Obj(<< <<DollarUrlsearchparams, Str(FormSerialize(v.pairs))>> >>)

\* The type a tag stands for.
TagKind(tag) ==
  CASE tag = DollarBigint -> "bigint"
    [] tag = DollarUint8array -> "uint8array"
    [] tag = DollarArraybuffer -> "arraybuffer"
    [] tag = DollarMap -> "map"
    [] tag = DollarSet -> "set"
    [] tag = DollarRegexp -> "regexp"
    [] tag = DollarUrlsearchparams -> "urlsearchparams"

\* The tags in the order the specification lists them, and in the order
\* parse looks for them.
ListedOrder ==
  <<DollarBigint, DollarUint8array, DollarArraybuffer, DollarMap, DollarSet,
    DollarRegexp, DollarUrlsearchparams>>
DecoderOrder ==
  <<DollarBigint, DollarUint8array, DollarArraybuffer, DollarMap, DollarSet,
    DollarUrlsearchparams, DollarRegexp>>

\* The first tag of an order that is a field name of the object.
FirstTag(order, obj) ==
  order[CHOOSE n \in DOMAIN order :
          /\ HasProperty(obj, order[n])
          /\ \A m \in 1..(n - 1) : ~HasProperty(obj, order[m])]

\* stringify writes a value of an extended type as the text of its tagged
\* object, and parse of that text gives the value back; parse of an object
\* with tag-named fields gives a value of the type of the first tag, in the
\* given order, that is among its fields.
TagsDecodedIn(order) ==
  /\ last.ev \in {"stringify", "parse"} /\ last.value \in ExtendedValues =>
       /\ Len(Encoded(last.value).props) = 1
       /\ TagKind(Encoded(last.value).props[1][1]) = last.value.t
       /\ last.text = stringify(Encoded(last.value))
       /\ last.ev = "parse" => StructurallyEqual(last.parsed, last.value) /\ last.parsed = last.value
  /\ last.ev = "parse" /\ last.value \in TagNamedValues \cup TwoTagValues =>
       /\ last.value.t = "object" => last.parsed.t = TagKind(FirstTag(order, last.value))
       /\ last.value.t = "array" =>
            last.parsed.items[1].t = TagKind(FirstTag(order, last.value.items[1]))

\* C36 as the specification states it: the tags are looked for in the order
\* $bigint, $uint8array, $arraybuffer, $map, $set, $regexp, $urlsearchparams.
C36_TagsInListedOrder == TagsDecodedIn(ListedOrder)

\* C36, corrected: stringify encodes a value of each extended type as an
\* object with the one field that names the type, and parse picks the
\* decoder of the first tag among the object's fields in the order $bigint,
\* $uint8array, $arraybuffer, $map, $set, $urlsearchparams, $regexp,
\* whatever the order of the fields in the object.
C36_TagsInDecoderOrder == TagsDecodedIn(DecoderOrder)

\* An object with the fields $regexp and $urlsearchparams, in this order,
\* was parsed as a URLSearchParams.
C36_RegexpFieldLostToParams ==
  /\ last.ev = "parse"
  /\ last.value \in TwoTagValues
  /\ last.value.props[1][1] = DollarRegexp
  /\ last.parsed = URLSearchParamsV(<< <<<<"a">>, <<"1">>>> >>)

\* The storage key of an argument tuple: the prefix, then the normalized key.
StorageKey(key) == keyPrefix \o smartKeyNormalizer(key)

\* C37: domStorageCache's set leaves stringify(value) as the item of the
\* storage key keyPrefix + normalize(key); get yields undefined exactly when
\* the storage has no item of that key and otherwise parse of the item, and
\* changes nothing; delete leaves no item of that key; and none of the three
\* changes the item of another storage key.
C37_DomStorageContract ==
  last.ev \in {"get", "set", "delete"} =>
    /\ Changed(last.before, map) \subseteq {StorageKey(last.key)}
    /\ last.ev = "set" =>
         /\ StorageKey(last.key) \in DOMAIN map
         /\ map[StorageKey(last.key)] = stringify(last.value)
    /\ last.ev = "delete" => StorageKey(last.key) \notin DOMAIN map
    /\ last.ev = "get" =>
         /\ map = last.before
         /\ last.value = Undefined <=> StorageKey(last.key) \notin DOMAIN map
         /\ StorageKey(last.key) \in DOMAIN map =>
              last.value = parse(map[StorageKey(last.key)])

\* get read back the nested array of one key while the other key holds the
\* text of a Date.
C37_NestedItemReadBack ==
  /\ last.ev = "get"
  /\ last.key = <<Num(1)>>
  /\ last.value = StorageResults[8]
  /\ StorageKey(<<Num(2)>>) \in DOMAIN map
  /\ map[StorageKey(<<Num(2)>>)] = stringify(DateV(1))

\* The expiry the specification describes for a set: the configured number,
\* or the configured function applied to the value and the arguments.
ConfiguredExpiry(value, key) ==
  IF options.expireIn.kind = "number" THEN Num(options.expireIn.n)
  ELSE IF options.expireIn.kind = "function" /\ value # Num(0) THEN key[1]
  ELSE Undefined

\* C38: denoKvCache's get yields undefined exactly when the store has no
\* entry of the key [...keyPrefix, ...args], and otherwise the entry's
\* value, and changes nothing; set leaves the value as the entry of that
\* key, with an expiry given to the store exactly when the configured
\* expiry, computed for this set, is not nullish (0 included); delete leaves
\* no entry of that key; set and delete change the entry of no other key.
C38_DenoKvContract ==
  last.ev \in {"get", "set", "delete"} =>
    /\ Changed(last.before, map) \subseteq {KvPrefix \o last.key}
    /\ last.ev = "get" =>
         /\ map = last.before
         /\ last.value = Undefined <=> (KvPrefix \o last.key) \notin DOMAIN map
         /\ (KvPrefix \o last.key) \in DOMAIN map => last.value = map[KvPrefix \o last.key].value
    /\ last.ev = "set" =>
         /\ (KvPrefix \o last.key) \in DOMAIN map
         /\ map[KvPrefix \o last.key].value = last.value
         /\ IF IsNullish(ConfiguredExpiry(last.value, last.key))
              THEN map[KvPrefix \o last.key].options = Undefined
              ELSE map[KvPrefix \o last.key].options =
                     [expireIn |-> ConfiguredExpiry(last.value, last.key)]
    /\ last.ev = "delete" => (KvPrefix \o last.key) \notin DOMAIN map

\* With expireIn: 0 configured, a value was set with the expiry 0 and read
\* back while the other key's entry is in the store.
C38_ZeroExpiryPassed ==
  /\ options.expireIn = [kind |-> "number", n |-> 0]
  /\ last.ev = "get"
  /\ last.key = <<Num(1)>>
  /\ last.value = Num(5)
  /\ map[KvPrefix \o <<Num(1)>>].options = [expireIn |-> Num(0)]
  /\ (KvPrefix \o <<Num(2), Num(3)>>) \in DOMAIN map

====
